--------------------------- MODULE ImeEditingProofs ---------------------------
(***************************************************************************)
(* For any set of characters and of input types, any length of the text    *)
(* and any number of calls and commits:                                    *)
(*   1. The keyboard follows the session of the client.  What counts is    *)
(*      the latest request: the one the compositor still holds, or else    *)
(*      the last one posted, or else what the Activity shows.              *)
(*   2. The types, which need lemmas about texts, their counts and the     *)
(*      edits of a field.                                                  *)
(*   3. The field of the client follows the Editable.  The events that are *)
(*      on their way lead from the stage of the one to that of the other:  *)
(*      a call of the IME adds to their end what it does to the Editable,  *)
(*      and handling one does to the field what its first event says.      *)
(***************************************************************************)
EXTENDS ImeEditing, SequenceTheorems, FiniteSetTheorems, WellFoundedInduction, TLAPS

Request == [visible : BOOLEAN, type : InputTypes]

Shown == [visible |-> keyboard, type |-> currentInputType]

Latest ==
  IF soft_keyboard_request # << >> THEN soft_keyboard_request[1]
  ELSE IF posted # << >> THEN posted[Len(posted)]
  ELSE Shown

RequestsTyped ==
  /\ posted \in Seq(Request)
  /\ soft_keyboard_request \in Seq(Request)
  /\ Len(soft_keyboard_request) <= 1
  /\ active \in BOOLEAN

LatestFollows == object => Latest.visible = active /\ (active => Latest.type = declared)

KeyboardInv == RequestsTyped /\ LatestFollows

(* The variables that the keyboard depends on. *)
sessionVars ==
  <<currentInputType, keyboard, posted, active, soft_keyboard_request, object, declared>>

-----------------------------------------------------------------------------
LEMMA InitKeyboardInv == Init => KeyboardInv
<1> SUFFICES ASSUME Init PROVE KeyboardInv
  OBVIOUS
<1>1. /\ posted = << >> /\ soft_keyboard_request = << >> /\ active = FALSE /\ keyboard = FALSE
  BY DEF Init
<1>2. RequestsTyped
  <2>1. posted \in Seq(Request) /\ soft_keyboard_request \in Seq(Request)
        /\ Len(soft_keyboard_request) = 0
    BY <1>1, EmptySeq, Zenon
  <2>2. active \in BOOLEAN
    BY <1>1
  <2> QED  BY <2>1, <2>2 DEF RequestsTyped
<1>3. Latest.visible = FALSE
  BY <1>1 DEF Latest, Shown
<1> QED  BY <1>1, <1>2, <1>3 DEF KeyboardInv, LatestFollows

LEMMA SameSession ==
  ASSUME KeyboardInv, UNCHANGED sessionVars
  PROVE  KeyboardInv'
BY DEF KeyboardInv, RequestsTyped, LatestFollows, Latest, Shown, sessionVars

LEMMA AndroidTypes == \A pending \in PendingTypes : android_input_type(pending) \in InputTypes
<1> SUFFICES ASSUME NEW pending \in PendingTypes
             PROVE  android_input_type(pending) \in InputTypes
  OBVIOUS
<1>1. CASE pending = << >>
  BY <1>1, TypesAssumption DEF android_input_type
<1>2. CASE pending # << >>
  <2>1. PICK t \in InputTypes : pending = <<t>>
    BY <1>2 DEF PendingTypes
  <2> QED  BY <1>2, <2>1 DEF android_input_type
<1> QED  BY <1>1, <1>2

(* A new request replaces the one that is held. *)
LEMMA NewRequest ==
  ASSUME KeyboardInv, NEW r \in Request, soft_keyboard_request' = <<r>>, posted' = posted,
         active' = r.visible, r.visible => r.type = declared'
  PROVE  KeyboardInv'
<1>1. RequestsTyped'
  BY DEF KeyboardInv, RequestsTyped, Request
<1>2. Latest' = r
  BY DEF Latest
<1> QED  BY <1>1, <1>2 DEF KeyboardInv, LatestFollows

LEMMA ImeCallKeeps == ImeCall => UNCHANGED sessionVars
BY DEF ImeCall, setComposingText, commitText, deleteSurroundingText, finishComposingText,
       setComposingRegion, replaceText, setSelection, Call, sessionVars, keyboardVars,
       compositorVars, clientVars

LEMMA EventKeeps == process_window_events => UNCHANGED sessionVars
BY DEF process_window_events, sessionVars, keyboardVars, clientVars

LEMMA VisibleKeeps ==
  ASSUME KeyboardInv, setSoftKeyboardVisible
  PROVE  KeyboardInv'
<1> DEFINE r == Head(posted)
<1>1. /\ posted # << >> /\ posted' = Tail(posted)
      /\ keyboard' = r.visible
      /\ currentInputType' = (IF r.visible THEN r.type ELSE currentInputType)
      /\ UNCHANGED <<active, soft_keyboard_request, object, declared>>
  BY DEF setSoftKeyboardVisible, compositorVars, clientVars
<1>2. posted \in Seq(Request) /\ Len(posted) \in Nat \ {0} /\ posted' \in Seq(Request)
      /\ Len(posted') = Len(posted) - 1 /\ r = posted[1] /\ r \in Request
  BY <1>1 DEF KeyboardInv, RequestsTyped
<1>3. RequestsTyped'
  BY <1>1, <1>2 DEF KeyboardInv, RequestsTyped
<1>4. CASE soft_keyboard_request # << >>
  <2>1. Latest' = Latest
    BY <1>1, <1>4 DEF Latest
  <2> QED  BY <1>1, <1>3, <2>1 DEF KeyboardInv, LatestFollows
<1>5. CASE soft_keyboard_request = << >> /\ Len(posted) # 1
  <2>0. /\ Len(Tail(posted)) = Len(posted) - 1
        /\ \A i \in 1 .. Len(Tail(posted)) : Tail(posted)[i] = posted[i + 1]
    BY <1>1, <1>2, HeadTailProperties, Zenon
  <2>1. Tail(posted)[Len(posted) - 1] = posted[Len(posted)] /\ Len(Tail(posted)) # 0
    BY <1>2, <1>5, <2>0
  <2>2. Tail(posted) # << >>
    BY <2>1, EmptySeq, Zenon
  <2>3. posted' # << >> /\ posted'[Len(posted')] = posted[Len(posted)]
    BY <1>1, <1>2, <2>1, <2>2, Zenon
  <2>4. Latest' = Latest
    BY <1>1, <1>5, <2>3 DEF Latest
  <2> QED  BY <1>1, <1>3, <2>4 DEF KeyboardInv, LatestFollows
<1>6. CASE soft_keyboard_request = << >> /\ Len(posted) = 1
  <2>1. posted' = << >> /\ Latest = r
    BY <1>1, <1>2, <1>6 DEF Latest
  <2> HIDE DEF r
  <2>2. Latest'.visible = r.visible /\ (r.visible => Latest'.type = r.type)
    BY <1>1, <1>6, <2>1 DEF Latest, Shown
  <2>3. object => r.visible = active /\ (active => r.type = declared)
    BY <2>1 DEF KeyboardInv, LatestFollows
  <2> QED  BY <1>1, <1>3, <2>2, <2>3 DEF KeyboardInv, LatestFollows
<1> QED  BY <1>4, <1>5, <1>6

LEMMA TakeKeeps ==
  ASSUME KeyboardInv, take_soft_keyboard_request
  PROVE  KeyboardInv'
<1>1. /\ soft_keyboard_request # << >> /\ posted' = posted \o soft_keyboard_request
      /\ soft_keyboard_request' = << >>
      /\ UNCHANGED <<active, object, declared>>
  BY DEF take_soft_keyboard_request, compositorVars, clientVars
<1>2. /\ posted \in Seq(Request) /\ soft_keyboard_request \in Seq(Request)
      /\ Len(soft_keyboard_request) = 1
  <2>1. /\ posted \in Seq(Request) /\ soft_keyboard_request \in Seq(Request)
        /\ Len(soft_keyboard_request) <= 1
    BY DEF KeyboardInv, RequestsTyped
  <2>2. Len(soft_keyboard_request) \in Nat \ {0}
    BY <1>1, <2>1, EmptySeq, Zenon
  <2>3. \A n \in Nat \ {0} : n <= 1 => n = 1
    OBVIOUS
  <2> QED  BY <2>1, <2>2, <2>3, Zenon
<1>3. /\ posted' \in Seq(Request) /\ Len(posted') = Len(posted) + 1
      /\ posted'[Len(posted')] = soft_keyboard_request[1]
  <2> DEFINE both == posted \o soft_keyboard_request
  <2>1. Len(posted) \in Nat
    BY <1>2, LenProperties, Zenon
  <2>2. /\ both \in Seq(Request) /\ Len(both) = Len(posted) + Len(soft_keyboard_request)
        /\ \A i \in 1 .. Len(posted) + Len(soft_keyboard_request) :
             both[i] = IF i <= Len(posted) THEN posted[i]
                       ELSE soft_keyboard_request[i - Len(posted)]
    BY <1>2, ConcatProperties, Zenon
  <2>3. posted' = both
    BY <1>1
  <2> HIDE DEF both
  <2>4. both[Len(posted) + 1] = soft_keyboard_request[1]
    BY <1>2, <2>1, <2>2
  <2> QED  BY <1>2, <2>1, <2>2, <2>3, <2>4
<1>4. RequestsTyped'
  BY <1>1, <1>3 DEF KeyboardInv, RequestsTyped
<1>5. Latest' = Latest
  <2>1. posted' # << >>
    BY <1>2, <1>3
  <2> QED  BY <1>1, <1>3, <2>1 DEF Latest
<1> QED  BY <1>1, <1>4, <1>5 DEF KeyboardInv, LatestFollows

LEMMA CommitKeeps ==
  ASSUME KeyboardInv, ClientCommit
  PROVE  KeyboardInv'
<1>1. ASSUME NEW pending \in PendingTypes, CommitEnable(pending)  PROVE KeyboardInv'
  <2> DEFINE r == [visible |-> TRUE, type |-> android_input_type(pending)]
  <2>1. r \in Request
    BY AndroidTypes DEF Request
  <2>2. /\ active' = TRUE /\ soft_keyboard_request' = <<r>> /\ posted' = posted
        /\ declared' = r.type /\ r.visible = TRUE
    BY <1>1 DEF CommitEnable, Commit
  <2> HIDE DEF r
  <2> QED  BY <2>1, <2>2, NewRequest
<1>2. CASE CommitDisable
  <2> DEFINE r == [visible |-> FALSE, type |-> DEFAULT_ANDROID_INPUT_TYPE]
  <2>1. r \in Request
    BY TypesAssumption DEF Request
  <2>2. active' = FALSE /\ soft_keyboard_request' = <<r>> /\ posted' = posted
        /\ r.visible = FALSE
    BY <1>2 DEF CommitDisable, Commit, SessionEnds
  <2> HIDE DEF r
  <2> QED  BY <2>1, <2>2, NewRequest
<1>3. ASSUME NEW type \in InputTypes, CommitContentType(type)  PROVE KeyboardInv'
  <2>1. UNCHANGED <<active, object, posted, keyboard, currentInputType>>
    BY <1>3 DEF CommitContentType, Commit, compositorVars, keyboardVars
  <2>2. CASE active
    <3> DEFINE r == [visible |-> TRUE, type |-> type]
    <3>1. r \in Request
      BY DEF Request
    <3>2. active' = TRUE /\ soft_keyboard_request' = <<r>> /\ declared' = r.type
          /\ r.visible = TRUE
      BY <1>3, <2>1, <2>2 DEF CommitContentType, KeyboardInv, RequestsTyped
    <3> HIDE DEF r
    <3> QED  BY <2>1, <3>1, <3>2, NewRequest
  <2>3. CASE ~active
    <3>1. UNCHANGED sessionVars
      BY <1>3, <2>1, <2>3 DEF CommitContentType, sessionVars
    <3> QED  BY <3>1, SameSession
  <2> QED  BY <2>2, <2>3
<1>4. CASE destroyed
  <2>1. object' = FALSE /\ UNCHANGED <<posted, soft_keyboard_request>> /\ active' \in BOOLEAN
    BY <1>4 DEF destroyed, SessionEnds, compositorVars, KeyboardInv, RequestsTyped
  <2> QED  BY <2>1 DEF KeyboardInv, RequestsTyped, LatestFollows
<1> QED  BY <1>1, <1>2, <1>3, <1>4 DEF ClientCommit

LEMMA NextKeyboardInv == KeyboardInv /\ [Next]_vars => KeyboardInv'
<1> SUFFICES ASSUME KeyboardInv, [Next]_vars PROVE KeyboardInv'
  OBVIOUS
<1>1. CASE UNCHANGED vars
  <2>1. UNCHANGED sessionVars
    BY <1>1 DEF vars, sessionVars, keyboardVars, compositorVars, clientVars
  <2> QED  BY <2>1, SameSession
<1>2. CASE ImeCall
  BY <1>2, ImeCallKeeps, SameSession
<1>3. CASE process_window_events
  BY <1>3, EventKeeps, SameSession
<1> QED
  BY <1>1, <1>2, <1>3, VisibleKeeps, TakeKeeps, CommitKeeps DEF Next

(* Once every request is done, the keyboard is shown exactly if the client *)
(* has a session, with the input type it has declared last: also when      *)
(* several requests of one dispatch were merged into the last, and when    *)
(* sessions begin and end faster than the UI thread follows.               *)
THEOREM KeyboardFollows == Spec => []KeyboardFollowsSession
<1>1. KeyboardInv => KeyboardFollowsSession
  BY DEF KeyboardInv, LatestFollows, Latest, Shown, KeyboardFollowsSession, Quiet
<1> QED  BY <1>1, InitKeyboardInv, NextKeyboardInv, PTL DEF Spec

-----------------------------------------------------------------------------
(* A stretch of a text, and a stretch put together from two. *)
LEMMA StretchIs ==
  ASSUME NEW s \in Seq(Chars), NEW from \in Nat, NEW to \in Nat, from <= to, to <= Len(s)
  PROVE  /\ Stretch(s, from, to) \in Seq(Chars)
         /\ Len(Stretch(s, from, to)) = to - from
         /\ \A i \in 1 .. to - from : Stretch(s, from, to)[i] = s[from + i]
<1>1. Len(s) \in Nat /\ \A i \in from + 1 .. to : s[i] \in Chars
  BY ElementOfSeq
<1>2. /\ SubSeq(s, from + 1, to) \in Seq(Chars)
      /\ Len(SubSeq(s, from + 1, to))
           = IF from + 1 <= to THEN to - (from + 1) + 1 ELSE 0
      /\ \A i \in 1 .. to - (from + 1) + 1 :
           SubSeq(s, from + 1, to)[i] = s[(from + 1) + i - 1]
  <2> DEFINE m == from + 1
  <2>1. m \in Int /\ to \in Int /\ \A i \in m .. to : s[i] \in Chars
    BY <1>1
  <2> HIDE DEF m
  <2>2. /\ SubSeq(s, m, to) \in Seq(Chars)
        /\ Len(SubSeq(s, m, to)) = IF m <= to THEN to - m + 1 ELSE 0
        /\ \A i \in 1 .. to - m + 1 : SubSeq(s, m, to)[i] = s[m + i - 1]
    BY <2>1, SubSeqProperties
  <2> QED  BY <2>2 DEF m
<1> DEFINE st == SubSeq(s, from + 1, to)
<1>3. Stretch(s, from, to) = st
  BY DEF Stretch
<1> HIDE DEF st
<1>4. st \in Seq(Chars) /\ Len(st) = to - from /\ \A i \in 1 .. to - from : st[i] = s[from + i]
  BY <1>2 DEF st
<1> QED  BY <1>3, <1>4

LEMMA StretchEmpty == \A s : \A n \in Nat : Stretch(s, n, n) = << >>
BY SubSeqEmpty DEF Stretch

LEMMA StretchJoin ==
  ASSUME NEW s \in Seq(Chars), NEW a \in Nat, NEW b \in Nat, NEW c \in Nat,
         a <= b, b <= c, c <= Len(s)
  PROVE  Stretch(s, a, b) \o Stretch(s, b, c) = Stretch(s, a, c)
<1>1. a + 1 \in 1 .. Len(s) + 1 /\ b \in (a + 1) - 1 .. Len(s) /\ c \in b .. Len(s)
  BY LenProperties
<1>2. SubSeq(s, a + 1, b) \o SubSeq(s, b + 1, c) = SubSeq(s, a + 1, c)
  BY <1>1, ConcatAdjacentSubSeq
<1> QED  BY <1>2 DEF Stretch

LEMMA Halves ==
  ASSUME NEW s \in Seq(Chars), NEW x \in 0 .. Len(s)
  PROVE  s = Stretch(s, 0, x) \o Stretch(s, x, Len(s))
<1>1. Stretch(s, 0, x) \o Stretch(s, x, Len(s)) = Stretch(s, 0, Len(s))
  BY StretchJoin, LenProperties
<1>2. Stretch(s, 0, Len(s)) = s
  BY SubSeqFull DEF Stretch
<1> QED  BY <1>1, <1>2

(* The stretches of a text that is put together from three. *)
LEMMA Pieces ==
  ASSUME NEW l \in Seq(Chars), NEW y \in Seq(Chars), NEW r \in Seq(Chars)
  PROVE  LET s == l \o (y \o r) IN
         /\ s \in Seq(Chars)
         /\ s = (l \o y) \o r
         /\ Len(s) = Len(l) + Len(y) + Len(r)
         /\ Stretch(s, 0, Len(l)) = l
         /\ Stretch(s, Len(l), Len(l) + Len(y)) = y
         /\ Stretch(s, Len(l) + Len(y), Len(s)) = r
<1> DEFINE z == y \o r
           s == l \o z
<1>0. Len(l) \in Nat /\ Len(y) \in Nat /\ Len(r) \in Nat
  BY LenProperties, Zenon
<1>1. z \in Seq(Chars) /\ Len(z) = Len(y) + Len(r)
      /\ \A i \in 1 .. Len(y) + Len(r) : z[i] = IF i <= Len(y) THEN y[i] ELSE r[i - Len(y)]
  BY ConcatProperties, Zenon
<1>4. s = (l \o y) \o r
  BY ConcatAssociative
<1> HIDE DEF z
<1>2. z \in Seq(Chars)
  BY <1>1
<1>3. s \in Seq(Chars) /\ Len(s) = Len(l) + Len(z)
      /\ \A i \in 1 .. Len(l) + Len(z) : s[i] = IF i <= Len(l) THEN l[i] ELSE z[i - Len(l)]
  BY <1>2, ConcatProperties, Zenon
<1> HIDE DEF s
<1>5. Stretch(s, 0, Len(l)) = l
  <2>1. /\ Stretch(s, 0, Len(l)) \in Seq(Chars)
        /\ Len(Stretch(s, 0, Len(l))) = Len(l)
        /\ \A i \in 1 .. Len(l) : Stretch(s, 0, Len(l))[i] = s[i]
    <3>1. 0 \in Nat /\ 0 <= Len(l) /\ Len(l) <= Len(s)
      BY <1>0, <1>1, <1>3
    <3>2. /\ Stretch(s, 0, Len(l)) \in Seq(Chars)
          /\ Len(Stretch(s, 0, Len(l))) = Len(l) - 0
          /\ \A i \in 1 .. Len(l) - 0 : Stretch(s, 0, Len(l))[i] = s[0 + i]
      BY <1>0, <1>3, <3>1, StretchIs, Zenon
    <3> QED  BY <1>0, <3>2
  <2>2. \A i \in 1 .. Len(l) : s[i] = l[i]
    BY <1>0, <1>1, <1>3
  <2> QED  BY <2>1, <2>2, SeqEqual
<1>6. Stretch(s, Len(l), Len(l) + Len(y)) = y
  <2> DEFINE q == Stretch(s, Len(l), Len(l) + Len(y))
  <2>1. /\ q \in Seq(Chars) /\ Len(q) = Len(y)
        /\ \A i \in 1 .. Len(y) : q[i] = s[Len(l) + i]
    <3>1. Len(l) + Len(y) \in Nat /\ Len(l) <= Len(l) + Len(y) /\ Len(l) + Len(y) <= Len(s)
          /\ (Len(l) + Len(y)) - Len(l) = Len(y)
      BY <1>0, <1>1, <1>3
    <3>2. /\ q \in Seq(Chars)
          /\ Len(q) = (Len(l) + Len(y)) - Len(l)
          /\ \A i \in 1 .. (Len(l) + Len(y)) - Len(l) : q[i] = s[Len(l) + i]
      BY <1>0, <1>3, <3>1, StretchIs, Zenon
    <3> QED  BY <3>1, <3>2, Zenon
  <2> HIDE DEF q
  <2>2. \A i \in 1 .. Len(y) : s[Len(l) + i] = y[i]
    BY <1>0, <1>1, <1>3
  <2>3. q = y
    BY <2>1, <2>2, SeqEqual
  <2> QED  BY <2>3 DEF q
<1>7. Stretch(s, Len(l) + Len(y), Len(s)) = r
  <2> DEFINE q == Stretch(s, Len(l) + Len(y), Len(s))
  <2>1. /\ q \in Seq(Chars) /\ Len(q) = Len(r)
        /\ \A i \in 1 .. Len(r) : q[i] = s[Len(l) + Len(y) + i]
    <3>1. Len(l) + Len(y) \in Nat /\ Len(s) \in Nat /\ Len(l) + Len(y) <= Len(s)
          /\ Len(s) - (Len(l) + Len(y)) = Len(r)
      BY <1>0, <1>1, <1>3
    <3>2. /\ q \in Seq(Chars)
          /\ Len(q) = Len(s) - (Len(l) + Len(y))
          /\ \A i \in 1 .. Len(s) - (Len(l) + Len(y)) : q[i] = s[Len(l) + Len(y) + i]
      <4>1. s \in Seq(Chars) /\ Len(s) <= Len(s)
        BY <1>3, <3>1
      <4> QED  BY <3>1, <4>1, StretchIs, Zenon
    <3> QED  BY <3>1, <3>2, Zenon
  <2> HIDE DEF q
  <2>2. \A i \in 1 .. Len(r) : s[Len(l) + Len(y) + i] = r[i]
    <3> SUFFICES ASSUME NEW i \in 1 .. Len(r)  PROVE s[Len(l) + Len(y) + i] = r[i]
      OBVIOUS
    <3>1. /\ Len(l) + Len(y) + i \in 1 .. Len(l) + Len(z)
          /\ ~(Len(l) + Len(y) + i <= Len(l))
          /\ (Len(l) + Len(y) + i) - Len(l) = Len(y) + i
          /\ Len(y) + i \in 1 .. Len(y) + Len(r)
          /\ ~(Len(y) + i <= Len(y))
          /\ (Len(y) + i) - Len(y) = i
      BY <1>0, <1>1
    <3>2. s[Len(l) + Len(y) + i] = z[Len(y) + i]
      BY <1>3, <3>1, Zenon
    <3>3. z[Len(y) + i] = r[i]
      BY <1>1, <3>1, Zenon
    <3> QED  BY <3>2, <3>3
  <2>3. q = r
    BY <2>1, <2>2, SeqEqual
  <2> QED  BY <2>3 DEF q
<1>8. Len(s) = Len(l) + Len(y) + Len(r)
  BY <1>0, <1>1, <1>3
<1> QED  BY <1>3, <1>4, <1>5, <1>6, <1>7, <1>8 DEF s, z

(* A stretch that is replaced. *)
Spliced(l, y, r, t) == Splice(l \o (y \o r), Len(l), Len(l) + Len(y), t) = l \o (t \o r)

LEMMA SpliceIs ==
  ASSUME NEW l \in Seq(Chars), NEW y \in Seq(Chars), NEW r \in Seq(Chars), NEW t \in Seq(Chars)
  PROVE  Spliced(l, y, r, t)
<1> DEFINE s == l \o (y \o r)
<1>1. Stretch(s, 0, Len(l)) = l /\ Stretch(s, Len(l) + Len(y), Len(s)) = r
  BY Pieces
<1> HIDE DEF s
<1>2. SubSeq(s, 1, Len(l)) = l /\ SubSeq(s, (Len(l) + Len(y)) + 1, Len(s)) = r
  BY <1>1 DEF Stretch
<1>3. Splice(s, Len(l), Len(l) + Len(y), t) = l \o t \o r
  BY <1>2 DEF Splice
<1>4. (l \o t) \o r = l \o (t \o r)
  BY ConcatAssociative
<1> QED  BY <1>3, <1>4 DEF s, Spliced

-----------------------------------------------------------------------------
(* The edits of the client's field: f has its caret between two texts.     *)
At(f, l, r, p) == f = [text |-> l \o r, caret |-> Len(l), preedit |-> p]

LEMMA InsertedIs ==
  ASSUME NEW l \in Seq(Chars), NEW r \in Seq(Chars), NEW t \in Seq(Chars), NEW p,
         NEW f, At(f, l, r, p)
  PROVE  At(Inserted(f, t), l \o t, r, p)
<1>1. << >> \in Seq(Chars) /\ Len(<< >>) = 0 /\ << >> \o r = r
  BY EmptySeq, ConcatEmptySeq, Zenon
<1>2. Len(l) \in Nat /\ Len(l \o t) = Len(l) + Len(t) /\ Len(l) + 0 = Len(l)
  BY ConcatProperties, LenProperties
<1>3. Splice(l \o r, Len(l), Len(l), t) = l \o (t \o r)
  <2>1. << >> \in Seq(Chars)
    BY <1>1
  <2>2. Spliced(l, << >>, r, t)
    BY <2>1, SpliceIs, Zenon
  <2> QED  BY <1>1, <1>2, <2>2 DEF Spliced
<1>4. l \o (t \o r) = (l \o t) \o r
  BY ConcatAssociative
<1>5. f.text = l \o r /\ f.caret = Len(l)
  BY DEF At
<1>6. Inserted(f, t) = [f EXCEPT !.text = (l \o t) \o r, !.caret = Len(l \o t)]
  BY <1>2, <1>3, <1>4, <1>5 DEF Inserted
<1> QED  BY <1>6 DEF At

LEMMA Dropped ==
  ASSUME NEW l \in Seq(Chars), NEW y \in Seq(Chars), NEW r \in Seq(Chars)
  PROVE  Splice(l \o (y \o r), Len(l), Len(l) + Len(y), << >>) = l \o r
<1>1. << >> \in Seq(Chars)
  BY EmptySeq, Zenon
<1>2. << >> \o r = r
  BY ConcatEmptySeq, Zenon
<1>3. Spliced(l, y, r, << >>)
  BY <1>1, SpliceIs, Zenon
<1> QED  BY <1>2, <1>3 DEF Spliced

LEMMA BackspacedIs ==
  ASSUME NEW l \in Seq(Chars), NEW y \in Seq(Chars), NEW r \in Seq(Chars), NEW p,
         NEW f, At(f, l \o y, r, p),
         NEW n \in Nat, n = Len(y) \/ (n > Len(y) /\ l = << >>)
  PROVE  At(Backspaced(f, n), l, r, p)
<1>2. Len(l) \in Nat /\ Len(y) \in Nat /\ Len(l \o y) = Len(l) + Len(y)
  BY ConcatProperties, LenProperties
<1>3. Least(n, Len(l) + Len(y)) = Len(y) /\ (Len(l) + Len(y)) - Len(y) = Len(l)
  BY <1>2 DEF Least
<1>4. (l \o y) \o r = l \o (y \o r)
  BY ConcatAssociative
<1>6. f.text = l \o (y \o r) /\ f.caret = Len(l) + Len(y)
  BY <1>2, <1>4 DEF At
<1>7. Backspaced(f, n) = [f EXCEPT !.text = l \o r, !.caret = Len(l)]
  <2>1. Splice(l \o (y \o r), Len(l), Len(l) + Len(y), << >>) = l \o r
    BY Dropped
  <2>2. Splice(f.text, f.caret - Least(n, f.caret), f.caret, << >>) = l \o r
        /\ f.caret - Least(n, f.caret) = Len(l)
    BY <1>3, <1>6, <2>1
  <2> QED  BY <2>2 DEF Backspaced
<1> QED  BY <1>7 DEF At

LEMMA DeletedIs ==
  ASSUME NEW l \in Seq(Chars), NEW y \in Seq(Chars), NEW r \in Seq(Chars), NEW p,
         NEW f, At(f, l, y \o r, p),
         NEW n \in Nat, n = Len(y) \/ (n > Len(y) /\ r = << >>)
  PROVE  At(Deleted(f, n), l, r, p)
<1>2. /\ Len(l) \in Nat /\ Len(y) \in Nat /\ Len(r) \in Nat
      /\ Len(l \o (y \o r)) = Len(l) + Len(y) + Len(r)
  BY Pieces, LenProperties
<1>3. Least(Len(l) + n, Len(l) + Len(y) + Len(r)) = Len(l) + Len(y)
  BY <1>2 DEF Least
<1>6. f.text = l \o (y \o r) /\ f.caret = Len(l)
  BY DEF At
<1>7. Deleted(f, n) = [f EXCEPT !.text = l \o r]
  <2>1. Splice(l \o (y \o r), Len(l), Len(l) + Len(y), << >>) = l \o r
    BY Dropped
  <2>2. Splice(f.text, f.caret, Least(f.caret + n, Len(f.text)), << >>) = l \o r
    BY <1>2, <1>3, <1>6, <2>1
  <2> QED  BY <2>2 DEF Deleted
<1> QED  BY <1>7 DEF At

LEMMA LeftIs ==
  ASSUME NEW l \in Seq(Chars), NEW y \in Seq(Chars), NEW r \in Seq(Chars), NEW p,
         NEW f, At(f, l \o y, r, p)
  PROVE  At(Left(f, Len(y)), l, y \o r, p)
<1>2. Len(l) \in Nat /\ Len(y) \in Nat /\ Len(l \o y) = Len(l) + Len(y)
  BY ConcatProperties, LenProperties
<1>3. Least(Len(y), Len(l) + Len(y)) = Len(y) /\ (Len(l) + Len(y)) - Len(y) = Len(l)
  BY <1>2 DEF Least
<1>4. (l \o y) \o r = l \o (y \o r)
  BY ConcatAssociative
<1>6. f.caret = Len(l) + Len(y)
  BY <1>2 DEF At
<1>7. Left(f, Len(y)) = [f EXCEPT !.caret = Len(l)]
  BY <1>3, <1>6 DEF Left
<1> QED  BY <1>4, <1>7 DEF At

LEMMA RightIs ==
  ASSUME NEW l \in Seq(Chars), NEW y \in Seq(Chars), NEW r \in Seq(Chars), NEW p,
         NEW f, At(f, l, y \o r, p)
  PROVE  At(Right(f, Len(y)), l \o y, r, p)
<1>2. /\ Len(l) \in Nat /\ Len(y) \in Nat /\ Len(r) \in Nat
      /\ Len(l \o y) = Len(l) + Len(y)
      /\ Len(l \o (y \o r)) = Len(l) + Len(y) + Len(r)
  BY ConcatProperties, LenProperties, Pieces
<1>3. Least(Len(l) + Len(y), Len(l) + Len(y) + Len(r)) = Len(l) + Len(y)
  BY <1>2 DEF Least
<1>4. (l \o y) \o r = l \o (y \o r)
  BY ConcatAssociative
<1>6. f.text = l \o (y \o r) /\ f.caret = Len(l)
  BY DEF At
<1>7. Right(f, Len(y)) = [f EXCEPT !.caret = Len(l \o y)]
  BY <1>2, <1>3, <1>6 DEF Right
<1> QED  BY <1>4, <1>7 DEF At

-----------------------------------------------------------------------------
(* Induction on a number: a set of naturals has a least element, so one    *)
(* that holds 0 and the successor of each of its elements holds all.       *)
LEMMA LeastElement ==
  ASSUME NEW S, S \subseteq Nat, S # {}
  PROVE  \E m \in S : \A k \in S : ~(k < m)
<1>1. PICK m \in S : \A k \in S : ~ (<<k, m>> \in OpToRel(<, Nat))
  BY NatLessThanWellFounded, WFMin, Zenon
<1>2. ASSUME NEW k \in S, k < m PROVE <<k, m>> \in OpToRel(<, Nat)
  BY <1>2 DEF OpToRel
<1> QED  BY <1>1, <1>2, Zenon

LEMMA SetInduction ==
  ASSUME NEW S, 0 \in S, \A n \in Nat : n \in S => n + 1 \in S
  PROVE  \A n \in Nat : n \in S
<1> SUFFICES ASSUME Nat \ S # {} PROVE FALSE
  OBVIOUS
<1>1. PICK m \in Nat \ S : \A k \in Nat \ S : ~(k < m)
  BY LeastElement
<1>2. m # 0 /\ m - 1 \in Nat /\ m - 1 < m /\ (m - 1) + 1 = m
  BY <1>1
<1> QED  BY <1>1, <1>2

(* The greatest of a bounded set of numbers. *)
LEMMA MaxIs ==
  ASSUME NEW S, S \subseteq Nat, NEW m \in S, \A k \in S : k <= m
  PROVE  Max(S) = m
<1>1. m \in S /\ \A k \in S : m >= k
  OBVIOUS
<1>2. \A x \in S : (\A k \in S : x >= k) => x = m
  OBVIOUS
<1> QED  BY <1>1, <1>2 DEF Max

LEMMA MaxExists ==
  ASSUME NEW c \in Nat, NEW S, S \subseteq 0 .. c, S # {}
  PROVE  \E m \in S : \A k \in S : k <= m
<1> DEFINE T == {c - k : k \in S}
<1>1. T \subseteq Nat /\ T # {}
  <2>1. \A k \in S : k \in Nat /\ k <= c /\ c - k \in Nat
    OBVIOUS
  <2>2. PICK k \in S : TRUE
    OBVIOUS
  <2>3. c - k \in T
    BY <2>2
  <2> QED  BY <2>1, <2>3
<1>2. PICK n \in T : \A k \in T : ~(k < n)
  BY <1>1, LeastElement
<1>3. PICK m \in S : n = c - m
  BY <1>2
<1>4. ASSUME NEW k \in S  PROVE k <= m
  <2>1. c - k \in T
    OBVIOUS
  <2>2. ~(c - k < c - m)
    BY <1>2, <1>3, <2>1
  <2> QED  BY <1>3, <2>2
<1> QED  BY <1>3, <1>4

LEMMA MaxIn ==
  ASSUME NEW c \in Nat, NEW S, S \subseteq 0 .. c, S # {}
  PROVE  Max(S) \in S
<1>1. PICK m \in S : \A k \in S : k <= m
  BY MaxExists
<1>2. S \subseteq Nat
  OBVIOUS
<1> QED  BY <1>1, <1>2, MaxIs

-----------------------------------------------------------------------------
(* The counts of a text: characters, UTF-16 units and bytes. *)
WideIn(s) == {i \in DOMAIN s : s[i] \in Wide}

LEMMA WideFinite ==
  ASSUME NEW s \in Seq(Chars)
  PROVE  IsFiniteSet(WideIn(s)) /\ Cardinality(WideIn(s)) \in Nat /\ WideOnes(s) = Cardinality(WideIn(s))
<1>1. DOMAIN s = 1 .. Len(s) /\ Len(s) \in Nat
  BY LenProperties, Zenon
<1>2. IsFiniteSet(1 .. Len(s))
  BY <1>1, FS_Interval
<1>3. WideIn(s) \subseteq 1 .. Len(s)
  BY <1>1 DEF WideIn
<1>4. IsFiniteSet(WideIn(s))
  BY <1>2, <1>3, FS_Subset
<1> QED  BY <1>4, FS_CardinalityType DEF WideIn, WideOnes

LEMMA Counts ==
  ASSUME NEW s \in Seq(Chars)
  PROVE  /\ Len(s) \in Nat
         /\ Units(s) \in Nat /\ Units(s) >= Len(s)
         /\ Bytes(s) \in Nat /\ Bytes(s) >= Len(s)
<1>1. Len(s) \in Nat
  BY LenProperties, Zenon
<1>2. WideOnes(s) \in Nat
  BY WideFinite
<1> QED  BY <1>1, <1>2 DEF Units, Bytes

LEMMA NarrowCounts ==
  ASSUME NEW s \in Seq(Chars), ~IsWide(s)
  PROVE  Units(s) = Len(s) /\ Bytes(s) = Len(s)
<1>1. Len(s) \in Nat
  BY LenProperties, Zenon
<1>2. WideIn(s) = {}
  BY DEF IsWide, WideIn
<1>3. WideOnes(s) = 0
  BY <1>2, WideFinite, FS_EmptySet
<1> QED  BY <1>1, <1>3 DEF Units, Bytes

LEMMA EmptyCounts == ~IsWide(<< >>) /\ Units(<< >>) = 0 /\ Bytes(<< >>) = 0
<1>1. << >> \in Seq(Chars) /\ Len(<< >>) = 0 /\ DOMAIN << >> = 1 .. Len(<< >>)
  BY EmptySeq, LenProperties
<1>2. ~IsWide(<< >>)
  BY <1>1 DEF IsWide
<1> QED  BY <1>1, <1>2, NarrowCounts

(* The bytes of a text are those of its end and at least one for each *)
(* character before it.                                               *)
LEMMA BytesOfEnd ==
  ASSUME NEW x \in Seq(Chars), NEW y \in Seq(Chars)
  PROVE  Bytes(x \o y) >= Len(x) + Bytes(y)
<1> DEFINE s == x \o y
           g == [i \in WideIn(y) |-> Len(x) + i]
<1>1. /\ s \in Seq(Chars) /\ Len(s) = Len(x) + Len(y)
      /\ \A i \in 1 .. Len(x) + Len(y) : s[i] = IF i <= Len(x) THEN x[i] ELSE y[i - Len(x)]
  BY ConcatProperties, Zenon
<1> HIDE DEF s
<1>2. /\ Len(x) \in Nat /\ Len(y) \in Nat /\ DOMAIN y = 1 .. Len(y) /\ DOMAIN s = 1 .. Len(s)
  BY <1>1, LenProperties, Zenon
<1>3. \A i \in WideIn(y) : i \in 1 .. Len(y) /\ Len(x) + i \in WideIn(s)
  <2> SUFFICES ASSUME NEW i \in WideIn(y)
               PROVE  i \in 1 .. Len(y) /\ Len(x) + i \in WideIn(s)
    OBVIOUS
  <2>1. i \in 1 .. Len(y) /\ y[i] \in Wide
    BY <1>2 DEF WideIn
  <2>2. /\ Len(x) + i \in 1 .. Len(x) + Len(y) /\ ~(Len(x) + i <= Len(x))
        /\ (Len(x) + i) - Len(x) = i
    BY <1>2, <2>1
  <2>3. s[Len(x) + i] = y[i]
    BY <1>1, <2>2, Zenon
  <2> QED  BY <1>1, <1>2, <2>1, <2>2, <2>3 DEF WideIn
<1>4. g \in Injection(WideIn(y), WideIn(s))
  <2>1. g \in [WideIn(y) -> WideIn(s)]
    BY <1>3
  <2>2. \A i, j \in WideIn(y) : g[i] = g[j] => i = j
    BY <1>2, <1>3
  <2> HIDE DEF g
  <2> QED  BY <2>1, <2>2 DEF Injection, IsInjective
<1>5. Cardinality(WideIn(y)) <= Cardinality(WideIn(s))
  <2>1. IsFiniteSet(WideIn(s))
    BY <1>1, WideFinite
  <2> HIDE DEF g
  <2> QED  BY <1>4, <2>1, FS_Injection
<1>6. WideOnes(y) \in Nat /\ WideOnes(s) \in Nat /\ WideOnes(y) <= WideOnes(s)
  <2>1. WideOnes(s) = Cardinality(WideIn(s)) /\ Cardinality(WideIn(s)) \in Nat
    BY <1>1, WideFinite
  <2>2. WideOnes(y) = Cardinality(WideIn(y)) /\ Cardinality(WideIn(y)) \in Nat
    BY WideFinite
  <2> QED  BY <1>5, <2>1, <2>2
<1>7. Bytes(s) >= Len(x) + Bytes(y)
  BY <1>1, <1>2, <1>6 DEF Bytes
<1> QED  BY <1>7 DEF s

(* The bytes before and after the caret are those of a text.           *)
Before(f, n, y) == BytesBefore(f, n) = Len(y)
After(f, n, y)  == BytesAfter(f, n) = Len(y)

LEMMA BytesBeforeIs ==
  ASSUME NEW l \in Seq(Chars), NEW y \in Seq(Chars), NEW r \in Seq(Chars), NEW p,
         NEW f, At(f, l \o y, r, p),
         NEW n \in Nat, n = Bytes(y) \/ (n > Bytes(y) /\ l = << >>)
  PROVE  Before(f, n, y)
<1> DEFINE s == l \o (y \o r)
           c == Len(l) + Len(y)
           K == {k \in 0 .. c : Bytes(Stretch(s, c - k, c)) <= n}
<1>1. /\ Len(l) \in Nat /\ Len(y) \in Nat /\ Len(r) \in Nat /\ Len(l \o y) = Len(l) + Len(y)
      /\ (l = << >> => Len(l) = 0)
  BY ConcatProperties, LenProperties, EmptySeq
<1>2. s \in Seq(Chars) /\ Len(s) = Len(l) + Len(y) + Len(r) /\ Stretch(s, Len(l), c) = y
  BY Pieces
<1>3. f.text = s /\ f.caret = c
  <2>1. s = (l \o y) \o r
    BY ConcatAssociative
  <2> QED  BY <1>1, <2>1 DEF At
<1> HIDE DEF s
<1>4. c \in Nat /\ K \subseteq Nat
  BY <1>1
<1>5. BytesBefore(f, n) = Max(K)
  BY <1>3 DEF BytesBefore
<1>6. Len(y) \in K
  <2>1. c - Len(y) = Len(l) /\ Len(y) \in 0 .. c
    BY <1>1
  <2>2. Bytes(y) <= n
    BY Counts
  <2> QED  BY <1>2, <2>1, <2>2
<1>7. ASSUME NEW k \in K  PROVE k <= Len(y)
  <2> SUFFICES ASSUME k > Len(y) PROVE FALSE
    BY <1>1, <1>4
  <2>1. k \in 0 .. c /\ Bytes(Stretch(s, c - k, c)) <= n
    OBVIOUS
  <2> HIDE DEF K
  <2> DEFINE x == Stretch(s, c - k, Len(l))
  <2>2. l # << >> /\ n = Bytes(y)
    BY <1>1, <2>1
  <2>3. c - k \in Nat /\ c - k <= Len(l) /\ Len(l) <= c /\ Len(l) <= Len(s) /\ c <= Len(s)
        /\ Len(l) - (c - k) > 0
    BY <1>1, <1>2, <2>1
  <2> HIDE DEF c
  <2>4. x \in Seq(Chars) /\ Len(x) = Len(l) - (c - k)
    BY <1>1, <1>2, <2>3, StretchIs, Zenon
  <2>5. x \o Stretch(s, Len(l), c) = Stretch(s, c - k, c)
    <3>1. s \in Seq(Chars) /\ Len(l) \in Nat /\ c \in Nat
      BY <1>1, <1>2, <1>4
    <3> QED  BY <2>3, <3>1, StretchJoin, Zenon
  <2> HIDE DEF x
  <2>6. Bytes(x \o y) >= Len(x) + Bytes(y) /\ Bytes(y) \in Nat /\ Len(x) > 0 /\ Len(x) \in Nat
        /\ Bytes(x \o y) \in Nat
    BY <2>3, <2>4, BytesOfEnd, Counts, ConcatProperties
  <2> QED  BY <1>2, <2>1, <2>2, <2>5, <2>6
<1> HIDE DEF K
<1>8. Max(K) = Len(y)
  BY <1>4, <1>6, <1>7, MaxIs, Zenon
<1> QED  BY <1>5, <1>8 DEF Before

LEMMA BytesAfterIs ==
  ASSUME NEW l \in Seq(Chars), NEW y \in Seq(Chars), NEW r \in Seq(Chars), NEW p,
         NEW f, At(f, l, y \o r, p), ~IsWide(y),
         NEW n \in Nat, n = Len(y) \/ (n > Len(y) /\ r = << >>)
  PROVE  After(f, n, y)
<1> DEFINE s == l \o (y \o r)
           c == Len(l)
           K == {k \in 0 .. Len(y) + Len(r) : Bytes(Stretch(s, c, c + k)) <= n}
<1>1. /\ Len(l) \in Nat /\ Len(y) \in Nat /\ Len(r) \in Nat
      /\ (r = << >> => Len(r) = 0)
  BY LenProperties, EmptySeq
<1>2. s \in Seq(Chars) /\ Len(s) = Len(l) + Len(y) + Len(r) /\ Stretch(s, c, c + Len(y)) = y
  BY Pieces
<1>3. f.text = s /\ f.caret = c
  BY DEF At
<1> HIDE DEF s
<1>4. c \in Nat /\ K \subseteq Nat /\ Len(s) - c = Len(y) + Len(r)
  BY <1>1, <1>2
<1>5. BytesAfter(f, n) = Max(K)
  BY <1>3, <1>4 DEF BytesAfter
<1>6. Len(y) \in K
  <2>1. Len(y) \in 0 .. Len(y) + Len(r)
    BY <1>1
  <2>2. Bytes(y) <= n
    BY NarrowCounts, <1>1
  <2> QED  BY <1>2, <2>1, <2>2
<1>7. ASSUME NEW k \in K  PROVE k <= Len(y)
  <2>1. k \in 0 .. Len(y) + Len(r) /\ Bytes(Stretch(s, c, c + k)) <= n
    OBVIOUS
  <2> HIDE DEF K
  <2> DEFINE d == c + k
             x == Stretch(s, c, d)
  <2>2. c \in Nat /\ d \in Nat /\ c <= d /\ d <= Len(s) /\ d - c = k
    BY <1>1, <1>2, <2>1
  <2> HIDE DEF c, d
  <2>3. x \in Seq(Chars) /\ Len(x) = d - c
    BY <1>2, <2>2, StretchIs, Zenon
  <2> HIDE DEF x
  <2>4. Bytes(x) \in Nat /\ Bytes(x) >= Len(x)
    BY <2>3, Counts, Zenon
  <2>5. Bytes(x) <= n
    BY <2>1 DEF x, d
  <2> QED  BY <1>1, <2>1, <2>2, <2>3, <2>4, <2>5
<1> HIDE DEF K
<1>8. Max(K) = Len(y)
  BY <1>4, <1>6, <1>7, MaxIs, Zenon
<1> QED  BY <1>5, <1>8 DEF After

LEMMA SurroundingDeletedIs ==
  ASSUME NEW l \in Seq(Chars), NEW x \in Seq(Chars), NEW y \in Seq(Chars), NEW r \in Seq(Chars),
         NEW p, NEW f, At(f, l \o x, y \o r, p), ~IsWide(y),
         NEW m \in Nat, m = Bytes(x) \/ (m > Bytes(x) /\ l = << >>),
         NEW n \in Nat, n = Len(y) \/ (n > Len(y) /\ r = << >>)
  PROVE  At(SurroundingDeleted(f, m, n), l, r, p)
<1>1. l \o x \in Seq(Chars) /\ y \o r \in Seq(Chars) /\ Len(x) \in Nat /\ Len(y) \in Nat
  BY ConcatProperties, LenProperties
<1>2. Before(f, m, x)
  BY <1>1, BytesBeforeIs, Zenon
<1>3. After(f, n, y)
  BY <1>1, BytesAfterIs, Zenon
<1>4. At(Deleted(f, Len(y)), l \o x, r, p)
  BY <1>1, DeletedIs, Zenon
<1> DEFINE g == Deleted(f, Len(y))
<1> HIDE DEF g
<1>5. At(Backspaced(g, Len(x)), l, r, p)
  BY <1>1, <1>4, BackspacedIs, Zenon DEF g
<1> QED  BY <1>2, <1>3, <1>5 DEF SurroundingDeleted, Before, After, g

-----------------------------------------------------------------------------
(* The function f that WithKeys defines by recursion, up to n. *)
IsKeyed(f, s, n) ==
  f = [m \in 0 .. n |-> IF m = 0 THEN << >>
                        ELSE IF HasKey(s[m]) THEN Append(f[m - 1], s[m])
                        ELSE f[m - 1]]

LEMMA KeyedExists ==
  ASSUME NEW s
  PROVE  \A n \in Nat : \E f : IsKeyed(f, s, n)
<1> DEFINE S == {n \in Nat : \E f : IsKeyed(f, s, n)}
<1>1. 0 \in S
  <2> DEFINE f == [m \in 0 .. 0 |-> << >>]
  <2>1. f = [m \in 0 .. 0 |-> IF m = 0 THEN << >>
                              ELSE IF HasKey(s[m]) THEN Append(f[m - 1], s[m])
                              ELSE f[m - 1]]
    OBVIOUS
  <2> HIDE DEF f
  <2> QED  BY <2>1 DEF IsKeyed
<1>2. ASSUME NEW n \in Nat, n \in S  PROVE n + 1 \in S
  <2>1. PICK f : IsKeyed(f, s, n)
    BY <1>2
  <2> DEFINE g == [m \in 0 .. n + 1 |->
                     IF m = 0 THEN << >>
                     ELSE IF HasKey(s[m]) THEN Append(f[m - 1], s[m])
                     ELSE f[m - 1]]
  <2>2. ASSUME NEW m \in 0 .. n + 1, m # 0  PROVE f[m - 1] = g[m - 1]
    <3>1. m - 1 \in 0 .. n /\ m - 1 \in 0 .. n + 1
      BY <2>2
    <3> HIDE DEF g
    <3>2. f[m - 1] = IF m - 1 = 0 THEN << >>
                     ELSE IF HasKey(s[m - 1]) THEN Append(f[(m - 1) - 1], s[m - 1])
                     ELSE f[(m - 1) - 1]
      BY <2>1, <3>1 DEF IsKeyed
    <3>3. g[m - 1] = IF m - 1 = 0 THEN << >>
                     ELSE IF HasKey(s[m - 1]) THEN Append(f[(m - 1) - 1], s[m - 1])
                     ELSE f[(m - 1) - 1]
      BY <3>1 DEF g
    <3> QED  BY <3>2, <3>3
  <2>3. g = [m \in 0 .. n + 1 |->
               IF m = 0 THEN << >>
               ELSE IF HasKey(s[m]) THEN Append(g[m - 1], s[m])
               ELSE g[m - 1]]
    <3> HIDE DEF g
    <3>1. g = [m \in 0 .. n + 1 |->
                     IF m = 0 THEN << >>
                     ELSE IF HasKey(s[m]) THEN Append(f[m - 1], s[m])
                     ELSE f[m - 1]]
      BY DEF g
    <3> QED  BY <2>2, <3>1, Zenon
  <2> HIDE DEF g
  <2>4. IsKeyed(g, s, n + 1)
    BY <2>3, Zenon DEF IsKeyed
  <2> QED  BY <2>4
<1> HIDE DEF S
<1>3. \A n \in Nat : n \in S
  BY <1>1, <1>2, SetInduction
<1> QED  BY <1>3 DEF S

LEMMA WithKeysIs ==
  ASSUME NEW s, Len(s) \in Nat
  PROVE  \E f : IsKeyed(f, s, Len(s)) /\ WithKeys(s) = f[Len(s)]
<1> DEFINE g == CHOOSE f : IsKeyed(f, s, Len(s))
<1>1. IsKeyed(g, s, Len(s))
  BY KeyedExists
<1>2. WithKeys(s) = g[Len(s)]
  BY DEF WithKeys, IsKeyed
<1> QED  BY <1>1, <1>2

(* Some keys are typed for a text, and all if it is narrow. *)
LEMMA KeysTyped ==
  ASSUME NEW s \in Seq(Chars)
  PROVE  WithKeys(s) \in Seq(Chars) /\ (~IsWide(s) => WithKeys(s) = s)
<1>1. Len(s) \in Nat /\ DOMAIN s = 1 .. Len(s) /\ \A i \in 1 .. Len(s) : s[i] \in Chars
  BY LenProperties, ElementOfSeq
<1>2. PICK f : IsKeyed(f, s, Len(s)) /\ WithKeys(s) = f[Len(s)]
  BY <1>1, WithKeysIs
<1> DEFINE Good(n) == /\ f[n] \in Seq(Chars)
                      /\ ~IsWide(s) => Len(f[n]) = n /\ \A i \in 1 .. n : f[n][i] = s[i]
           S == {n \in Nat : n <= Len(s) => Good(n)}
<1>3. f[0] = << >> /\ << >> \in Seq(Chars) /\ Len(<< >>) = 0
  <2>1. 0 \in 0 .. Len(s)
    BY <1>1
  <2> QED  BY <1>2, <2>1, EmptySeq DEF IsKeyed
<1>4. 0 \in S
  <2>1. f[0] \in Seq(Chars) /\ Len(f[0]) = 0 /\ 1 .. 0 = {}
    BY <1>3
  <2>2. Good(0)
    BY <2>1
  <2> HIDE DEF Good
  <2> QED  BY <2>2
<1>5. ASSUME NEW n \in Nat, n \in S  PROVE n + 1 \in S
  <2> SUFFICES ASSUME n + 1 <= Len(s)  PROVE Good(n + 1)
    OBVIOUS
  <2>1. Good(n)
    BY <1>1, <1>5
  <2>2. n + 1 \in 0 .. Len(s) /\ n + 1 # 0 /\ (n + 1) - 1 = n /\ n + 1 \in 1 .. Len(s)
    BY <1>1
  <2>3. f[n + 1] = IF HasKey(s[n + 1]) THEN Append(f[n], s[n + 1]) ELSE f[n]
    BY <1>2, <2>2 DEF IsKeyed
  <2> DEFINE b == f[n]
             c == s[n + 1]
  <2>4. b \in Seq(Chars) /\ c \in Chars
    BY <1>1, <2>1, <2>2
  <2> HIDE DEF b, c
  <2>5. /\ Append(b, c) \in Seq(Chars) /\ Len(Append(b, c)) = Len(b) + 1
        /\ \A i \in 1 .. Len(b) : Append(b, c)[i] = b[i]
        /\ Append(b, c)[Len(b) + 1] = c
    BY <2>4, AppendProperties
  <2>6. f[n + 1] \in Seq(Chars)
    BY <2>3, <2>4, <2>5 DEF b, c
  <2>7. ASSUME ~IsWide(s)
        PROVE  Len(f[n + 1]) = n + 1 /\ \A i \in 1 .. n + 1 : f[n + 1][i] = s[i]
    <3>1. HasKey(c)
      BY <1>1, <2>2, <2>7 DEF IsWide, HasKey, c
    <3>2. f[n + 1] = Append(b, c) /\ Len(b) = n /\ \A i \in 1 .. n : b[i] = s[i]
      BY <2>1, <2>3, <2>7, <3>1 DEF b, c
    <3>3. \A i \in 1 .. n + 1 : i \in 1 .. n \/ i = n + 1
      OBVIOUS
    <3>4. Append(b, c)[n + 1] = s[n + 1]
      BY <2>5, <3>2 DEF c
    <3> QED  BY <2>5, <3>2, <3>3, <3>4
  <2> QED  BY <2>6, <2>7
<1> HIDE DEF S
<1>6. Len(s) \in S
  BY <1>1, <1>4, <1>5, SetInduction
<1>7. Good(Len(s))
  BY <1>1, <1>6 DEF S
<1>8. ~IsWide(s) => f[Len(s)] = s
  BY <1>7, SeqEqual
<1> QED  BY <1>2, <1>7, <1>8

(* Two texts begin with their longest common prefix, and nothing longer.   *)
LEMMA CommonIs ==
  ASSUME NEW a \in Seq(Chars), NEW b \in Seq(Chars)
  PROVE  LET common == Len(LongestCommonPrefix({a, b})) IN
         /\ common \in Nat /\ common <= Len(a) /\ common <= Len(b)
         /\ Stretch(a, 0, common) = Stretch(b, 0, common)
<1> DEFINE C == CommonPrefixes({a, b})
           P == LongestCommonPrefix({a, b})
<1>1. Len(a) \in Nat /\ Len(b) \in Nat
  BY LenProperties
<1>2. ASSUME NEW s \in Seq(Chars), NEW q \in Prefixes(s)
      PROVE  q \in Seq(Chars)
  <2>1. PICK n \in 0 .. Len(s) : q = SubSeq(s, 1, n)
    BY <1>2 DEF Prefixes
  <2>2. n \in Nat /\ n <= Len(s) /\ 0 <= n
    BY LenProperties
  <2>3. Stretch(s, 0, n) \in Seq(Chars)
    BY <2>2, StretchIs
  <2> QED  BY <2>1, <2>3 DEF Stretch
<1>3. \A q \in C : q \in Seq(Chars) /\ IsPrefix(q, a) /\ IsPrefix(q, b)
  BY <1>2 DEF CommonPrefixes
<1>4. << >> \in C
  <2>1. SubSeq(a, 1, 0) = << >> /\ SubSeq(b, 1, 0) = << >> /\ SubSeq(<< >>, 1, 0) = << >>
        /\ Len(<< >>) = 0
    BY SubSeqEmpty
  <2>2. << >> \in Prefixes(a)
    <3>1. 0 \in 0 .. Len(a)
      BY <1>1
    <3> QED  BY <2>1, <3>1 DEF Prefixes
  <2>3. IsPrefix(<< >>, a) /\ IsPrefix(<< >>, b)
    BY <1>1, <2>1 DEF IsPrefix
  <2> QED  BY <2>2, <2>3 DEF CommonPrefixes
<1>5. \E q \in C : \A other \in C : Len(other) <= Len(q)
  <2> DEFINE L == {Len(q) : q \in C}
  <2>1. L \subseteq 0 .. Len(a) /\ L # {}
    <3>1. \A q \in C : Len(q) \in 0 .. Len(a)
      BY <1>1, <1>3, LenProperties DEF IsPrefix
    <3> HIDE DEF C
    <3>2. Len(<< >>) \in L
      BY <1>4
    <3> QED  BY <3>1, <3>2
  <2> HIDE DEF C
  <2>2. PICK m \in L : \A k \in L : k <= m
    <3> HIDE DEF L
    <3> QED  BY <1>1, <2>1, MaxExists
  <2>3. PICK q \in C : m = Len(q)
    OBVIOUS
  <2>4. \A other \in C : Len(other) <= Len(q)
    BY <2>2, <2>3
  <2> QED  BY <2>4
<1>6. P \in C
  BY <1>5 DEF LongestCommonPrefix
<1> HIDE DEF C, P
<1>7. P \in Seq(Chars) /\ IsPrefix(P, a) /\ IsPrefix(P, b)
  BY <1>3, <1>6
<1>8. Len(P) \in Nat
  BY <1>7, LenProperties
<1>9. /\ Len(P) <= Len(a) /\ Len(P) <= Len(b)
      /\ SubSeq(a, 1, Len(P)) = SubSeq(b, 1, Len(P))
  BY <1>7 DEF IsPrefix
<1>10. Stretch(a, 0, Len(P)) = Stretch(b, 0, Len(P))
  BY <1>9 DEF Stretch
<1> QED  BY <1>8, <1>9, <1>10 DEF P

LEMMA EndIsSuffix ==
  ASSUME NEW l \in Seq(Chars), NEW c \in Seq(Chars)
  PROVE  IsSuffix(c, l \o c)
<1> DEFINE s == l \o c
<1>1. /\ s \in Seq(Chars) /\ Len(s) = Len(l) + Len(c)
      /\ \A i \in 1 .. Len(l) + Len(c) : s[i] = IF i <= Len(l) THEN l[i] ELSE c[i - Len(l)]
  BY ConcatProperties, Zenon
<1>2. Len(l) \in Nat /\ Len(c) \in Nat
  BY LenProperties
<1> HIDE DEF s
<1>3. ASSUME NEW t \in Seq(Chars)
      PROVE  /\ Reverse(t) \in Seq(Chars) /\ Len(Reverse(t)) = Len(t)
             /\ \A i \in 1 .. Len(t) : Reverse(t)[i] = t[(Len(t) - i) + 1]
  <2>1. Len(t) \in Nat
    BY LenProperties
  <2>2. \A i \in 1 .. Len(t) : t[(Len(t) - i) + 1] \in Chars
    <3> SUFFICES ASSUME NEW i \in 1 .. Len(t)  PROVE t[(Len(t) - i) + 1] \in Chars
      OBVIOUS
    <3>1. (Len(t) - i) + 1 \in 1 .. Len(t)
      BY <2>1
    <3> QED  BY <3>1, ElementOfSeq
  <2>3. Reverse(t) \in [1 .. Len(t) -> Chars]
    BY <2>2 DEF Reverse
  <2>4. Reverse(t) \in Seq(Chars)
    BY <2>1, <2>3, SeqDef
  <2>5. Len(Reverse(t)) = Len(t)
    BY <2>1, <2>3, <2>4, LenProperties
  <2> QED  BY <2>4, <2>5 DEF Reverse
<1> DEFINE u == Stretch(Reverse(s), 0, Len(c))
           v == Stretch(Reverse(c), 0, Len(c))
<1>4. /\ u \in Seq(Chars) /\ Len(u) = Len(c)
      /\ \A i \in 1 .. Len(c) : u[i] = Reverse(s)[i]
  <2>1. Reverse(s) \in Seq(Chars) /\ Len(c) <= Len(Reverse(s)) /\ 0 <= Len(c) /\ 0 \in Nat
    BY <1>1, <1>2, <1>3
  <2>2. /\ u \in Seq(Chars) /\ Len(u) = Len(c) - 0
        /\ \A i \in 1 .. Len(c) - 0 : u[i] = Reverse(s)[0 + i]
    BY <1>2, <2>1, StretchIs, Zenon
  <2> HIDE DEF u
  <2> QED  BY <1>2, <2>2
<1>5. /\ v \in Seq(Chars) /\ Len(v) = Len(c)
      /\ \A i \in 1 .. Len(c) : v[i] = Reverse(c)[i]
  <2>1. Reverse(c) \in Seq(Chars) /\ Len(c) <= Len(Reverse(c)) /\ 0 <= Len(c) /\ 0 \in Nat
    BY <1>2, <1>3
  <2>2. /\ v \in Seq(Chars) /\ Len(v) = Len(c) - 0
        /\ \A i \in 1 .. Len(c) - 0 : v[i] = Reverse(c)[0 + i]
    BY <1>2, <2>1, StretchIs, Zenon
  <2> HIDE DEF v
  <2> QED  BY <1>2, <2>2
<1> HIDE DEF u, v
<1>6. \A i \in 1 .. Len(c) : u[i] = v[i]
  <2> SUFFICES ASSUME NEW i \in 1 .. Len(c)  PROVE u[i] = v[i]
    OBVIOUS
  <2> DEFINE j == (Len(s) - i) + 1
             k == (Len(c) - i) + 1
  <2>1. u[i] = s[j]
    BY <1>1, <1>2, <1>3, <1>4
  <2>2. v[i] = c[k]
    BY <1>3, <1>5
  <2>3. j \in 1 .. Len(l) + Len(c) /\ ~(j <= Len(l)) /\ j - Len(l) = k
    BY <1>1, <1>2
  <2> HIDE DEF j, k
  <2>4. s[j] = c[k]
    <3>1. s[j] = IF j <= Len(l) THEN l[j] ELSE c[j - Len(l)]
      BY <1>1, <2>3
    <3> QED  BY <2>3, <3>1
  <2> QED  BY <2>1, <2>2, <2>4
<1>7. u = v
  BY <1>4, <1>5, <1>6, SeqEqual
<1>8. SubSeq(Reverse(s), 1, Len(c)) = SubSeq(Reverse(c), 1, Len(c))
  BY <1>7 DEF u, v, Stretch
<1>9. Len(Reverse(c)) = Len(c) /\ Len(Reverse(s)) = Len(l) + Len(c)
  BY <1>1, <1>3
<1> QED  BY <1>2, <1>8, <1>9 DEF IsSuffix, IsPrefix, s

Regrouped(x, y, z) == (x \o y) \o z = x \o (y \o z)

LEMMA Regroup ==
  ASSUME NEW x \in Seq(Chars), NEW y \in Seq(Chars), NEW z \in Seq(Chars)
  PROVE  Regrouped(x, y, z)
BY ConcatAssociative DEF Regrouped

(* Typing from one composed text to the next. *)
Retyped(f, a, t) ==
  LET common == Len(LongestCommonPrefix({a, t}))
  IN  Inserted(Backspaced(f, Len(a) - common), WithKeys(Stretch(t, common, Len(t))))

LEMMA WideEnd ==
  ASSUME NEW x \in Seq(Chars), NEW y \in Seq(Chars), IsWide(y)
  PROVE  IsWide(x \o y)
<1>1. /\ Len(x) \in Nat /\ Len(y) \in Nat /\ DOMAIN y = 1 .. Len(y)
      /\ x \o y \in Seq(Chars)
  BY LenProperties, ConcatProperties
<1>2. PICK i \in 1 .. Len(y) : y[i] \in Wide
  BY <1>1 DEF IsWide
<1>3. /\ Len(x) + i \in 1 .. Len(x) + Len(y) /\ ~(Len(x) + i <= Len(x))
      /\ (Len(x) + i) - Len(x) = i
  BY <1>1
<1>4. (x \o y)[Len(x) + i] = y[i]
  <2>1. (x \o y)[Len(x) + i] = IF Len(x) + i <= Len(x) THEN x[Len(x) + i] ELSE y[(Len(x) + i) - Len(x)]
    BY <1>3, ConcatProperties, Zenon
  <2> QED  BY <1>3, <2>1
<1>5. DOMAIN (x \o y) = 1 .. Len(x) + Len(y)
  BY <1>1, ConcatProperties, LenProperties
<1> QED  BY <1>2, <1>3, <1>4, <1>5 DEF IsWide

LEMMA RetypedIs ==
  ASSUME NEW l \in Seq(Chars), NEW a \in Seq(Chars), NEW t \in Seq(Chars), NEW r \in Seq(Chars),
         NEW p, NEW f, At(f, l \o a, r, p), ~IsWide(a \o t)
  PROVE  At(Retyped(f, a, t), l \o t, r, p)
<1> DEFINE n == Len(LongestCommonPrefix({a, t}))
           h == Stretch(a, 0, n)
           y == Stretch(a, n, Len(a))
           z == Stretch(t, n, Len(t))
<1>1. Len(a) \in Nat /\ Len(t) \in Nat /\ n \in Nat /\ n <= Len(a) /\ n <= Len(t)
      /\ h = Stretch(t, 0, n)
  BY CommonIs, LenProperties
<1> HIDE DEF n
<1>2. h \in Seq(Chars) /\ y \in Seq(Chars) /\ Len(y) = Len(a) - n /\ a = h \o y
  <2>1. 0 \in Nat /\ 0 <= n /\ Len(a) <= Len(a) /\ n \in 0 .. Len(a)
    BY <1>1
  <2> QED  BY <1>1, <2>1, StretchIs, Halves
<1>3. z \in Seq(Chars) /\ t = h \o z
  <2>1. Len(t) <= Len(t) /\ n \in 0 .. Len(t)
    BY <1>1
  <2>2. z \in Seq(Chars)
    BY <1>1, <2>1, StretchIs
  <2>3. t = Stretch(t, 0, n) \o z
    BY <2>1, Halves
  <2> QED  BY <1>1, <2>2, <2>3
<1> HIDE DEF h, y, z
<1>4. l \o a = (l \o h) \o y /\ l \o t = (l \o h) \o z /\ l \o h \in Seq(Chars)
  <2>0. h \in Seq(Chars) /\ y \in Seq(Chars)
    BY <1>2
  <2>1. Regrouped(l, h, y)
    BY <2>0, Regroup, Zenon
  <2>2. Regrouped(l, h, z)
    BY <1>3, <2>0, Regroup, Zenon
  <2>3. l \o h \in Seq(Chars)
    BY <2>0, ConcatProperties
  <2>4. l \o a = l \o (h \o y) /\ l \o t = l \o (h \o z)
    BY <1>2, <1>3
  <2> QED  BY <2>1, <2>2, <2>3, <2>4 DEF Regrouped
<1> DEFINE g == Backspaced(f, Len(a) - n)
           lh == l \o h
<1>5. At(g, lh, r, p)
  <2>1. At(f, lh \o y, r, p) /\ lh \in Seq(Chars) /\ Len(a) - n \in Nat
    BY <1>1, <1>4
  <2> HIDE DEF lh, g
  <2> QED  BY <1>2, <2>1, BackspacedIs DEF g
<1>6. WithKeys(z) = z
  <2>1. ~IsWide(t)
    BY WideEnd
  <2>2. ~IsWide(z)
    BY <1>2, <1>3, <2>1, WideEnd
  <2> QED  BY <1>3, <2>2, KeysTyped
<1> HIDE DEF g
<1>7. At(Inserted(g, z), l \o t, r, p)
  <2>1. lh \in Seq(Chars) /\ lh \o z = l \o t
    BY <1>4
  <2> HIDE DEF lh
  <2>2. At(Inserted(g, z), lh \o z, r, p)
    BY <1>3, <1>5, <2>1, InsertedIs, Zenon
  <2> QED  BY <2>1, <2>2
<1> QED  BY <1>6, <1>7 DEF Retyped, g, n, z

-----------------------------------------------------------------------------
(* The types.  TypeInv says what TypeOK does, and what a step needs to     *)
(* keep it: the region lies in its text, and the events are well formed.   *)
Event ==
  [type : {"ImeComposing", "ImeCommit", "ImeDelete", "ImeRecompose", "Left", "Right", "Backspace"},
   text : Texts, before : Nat, after : Nat]

FieldTyped(f) ==
  /\ f \in [text : Seq(Chars), caret : Nat, preedit : Texts]
  /\ f.caret <= Len(f.text)

EditorTyped ==
  /\ text \in Texts
  /\ cursor \in 0 .. Len(text)
  /\ region \in [start : Nat, end : Nat]
  /\ region.start <= region.end /\ region.end <= Len(text)
  /\ composingText \in Texts

TypeInv ==
  /\ EditorTyped
  /\ currentInputType \in InputTypes
  /\ keyboard \in BOOLEAN
  /\ events \in Seq(Event)
  /\ composing_text \in Texts
  /\ object \in BOOLEAN
  /\ FieldTyped(field)
  /\ declared \in InputTypes
  /\ calls \in 0 .. MaxCalls
  /\ commits \in 0 .. MaxCommits
  /\ astray \in BOOLEAN

LEMMA TypesSuffice == TypeInv /\ RequestsTyped => TypeOK
<1> SUFFICES ASSUME TypeInv, RequestsTyped PROVE TypeOK
  OBVIOUS
<1>1. \A i \in DOMAIN posted : posted[i] \in [visible : BOOLEAN, type : InputTypes]
  <2>1. posted \in Seq([visible : BOOLEAN, type : InputTypes])
    BY DEF RequestsTyped, Request
  <2> QED  BY <2>1, LenProperties, ElementOfSeq
<1>2. field.text \in Seq(Chars) /\ field.caret \in 0 .. Len(field.text) /\ field.preedit \in Texts
  <2>1. field \in [text : Seq(Chars), caret : Nat, preedit : Texts] /\ field.caret <= Len(field.text)
    BY DEF TypeInv, FieldTyped
  <2>2. field.text \in Seq(Chars) /\ field.caret \in Nat /\ field.preedit \in Texts
    BY <2>1
  <2> QED  BY <2>1, <2>2, LenProperties
<1> QED  BY <1>1, <1>2 DEF TypeOK, TypeInv, EditorTyped, RequestsTyped

-----------------------------------------------------------------------------
LEMMA TextsAre == \A t : t \in Texts <=> t \in Seq(Chars) /\ Len(t) <= MaxText
<1>0. MaxText \in Nat
  BY BoundsAssumption
<1>1. ASSUME NEW t \in Texts  PROVE t \in Seq(Chars) /\ Len(t) <= MaxText
  <2>1. PICK n \in 0 .. MaxText : t \in [1 .. n -> Chars]
    BY DEF Texts
  <2>2. n \in Nat /\ n <= MaxText
    BY <1>0
  <2>3. t \in Seq(Chars)
    BY <2>1, <2>2, SeqDef
  <2>4. Len(t) = n
    BY <2>1, <2>2, <2>3, LenProperties
  <2> QED  BY <2>2, <2>3, <2>4
<1>2. ASSUME NEW t \in Seq(Chars), Len(t) <= MaxText  PROVE t \in Texts
  <2>1. Len(t) \in 0 .. MaxText /\ t \in [1 .. Len(t) -> Chars]
    BY <1>0, <1>2, LenProperties
  <2> QED  BY <2>1 DEF Texts
<1> QED  BY <1>1, <1>2

LEMMA StretchText ==
  ASSUME NEW s \in Texts, NEW from \in Nat, NEW to \in Nat, from <= to, to <= Len(s)
  PROVE  Stretch(s, from, to) \in Texts /\ Len(Stretch(s, from, to)) = to - from
<1>1. s \in Seq(Chars) /\ Len(s) <= MaxText /\ MaxText \in Nat /\ Len(s) \in Nat
  BY TextsAre, BoundsAssumption, LenProperties
<1>2. Stretch(s, from, to) \in Seq(Chars) /\ Len(Stretch(s, from, to)) = to - from
  BY <1>1, StretchIs
<1>3. to - from <= MaxText
  BY <1>1
<1> QED  BY <1>2, <1>3, TextsAre

(* In the text u, t has taken the place of a stretch of s. *)
Replaced(s, from, to, t, u) ==
  /\ u \in Seq(Chars)
  /\ Len(u) = from + Len(t) + (Len(s) - to)
  /\ Stretch(u, 0, from) = Stretch(s, 0, from)
  /\ Stretch(u, from, from + Len(t)) = t
  /\ Stretch(u, from + Len(t), Len(u)) = Stretch(s, to, Len(s))

LEMMA SpliceReplaces ==
  ASSUME NEW s \in Seq(Chars), NEW from \in Nat, NEW to \in Nat, from <= to, to <= Len(s),
         NEW t \in Seq(Chars)
  PROVE  Replaced(s, from, to, t, Splice(s, from, to, t))
<1> DEFINE u == Splice(s, from, to, t)
<1> DEFINE l == Stretch(s, 0, from)
           y == Stretch(s, from, to)
           r == Stretch(s, to, Len(s))
<1>1. Len(s) \in Nat /\ 0 <= from /\ 0 \in Nat /\ from - 0 = from /\ from <= Len(s)
      /\ Len(s) <= Len(s) /\ 0 <= to
  BY LenProperties
<1>2. /\ l \in Seq(Chars) /\ Len(l) = from
      /\ y \in Seq(Chars) /\ Len(y) = to - from
      /\ r \in Seq(Chars) /\ Len(r) = Len(s) - to
  BY <1>1, StretchIs
<1>3. s = l \o (y \o r)
  <2>1. y \o r = Stretch(s, from, Len(s))
    BY <1>1, StretchJoin
  <2>2. from \in 0 .. Len(s)
    BY <1>1
  <2>3. s = l \o Stretch(s, from, Len(s))
    BY <2>2, Halves
  <2> QED  BY <2>1, <2>3
<1> HIDE DEF l, y, r
<1>4. u = l \o (t \o r)
  <2>1. Spliced(l, y, r, t)
    BY <1>2, SpliceIs, Zenon
  <2>2. Len(l) = from /\ Len(l) + Len(y) = to
    BY <1>1, <1>2
  <2> QED  BY <1>3, <2>1, <2>2 DEF Spliced
<1> DEFINE v == l \o (t \o r)
<1>5. /\ v \in Seq(Chars) /\ Len(v) = Len(l) + Len(t) + Len(r)
      /\ Stretch(v, 0, Len(l)) = l
      /\ Stretch(v, Len(l), Len(l) + Len(t)) = t
      /\ Stretch(v, Len(l) + Len(t), Len(v)) = r
  <2>1. l \in Seq(Chars) /\ r \in Seq(Chars)
    BY <1>2
  <2> QED  BY <2>1, Pieces
<1> HIDE DEF u, v
<1>6. u = v
  BY <1>4 DEF v
<1>7. Replaced(s, from, to, t, u)
  BY <1>2, <1>5, <1>6 DEF l, r, Replaced
<1> QED  BY <1>7 DEF u

-----------------------------------------------------------------------------
(* The client's edits keep its caret in its text. *)
LEMMA FieldEdits ==
  ASSUME NEW f, FieldTyped(f), NEW n \in Nat
  PROVE  /\ FieldTyped(Backspaced(f, n)) /\ FieldTyped(Deleted(f, n))
         /\ FieldTyped(Left(f, n)) /\ FieldTyped(Right(f, n))
<1>1. /\ f \in [text : Seq(Chars), caret : Nat, preedit : Texts] /\ f.caret <= Len(f.text)
      /\ f.text \in Seq(Chars) /\ f.caret \in Nat /\ Len(f.text) \in Nat
  BY LenProperties DEF FieldTyped
<1>2. << >> \in Seq(Chars) /\ Len(<< >>) = 0
  BY EmptySeq
<1>3. FieldTyped(Backspaced(f, n))
  <2> DEFINE k == Least(n, f.caret)
             u == Splice(f.text, f.caret - k, f.caret, << >>)
  <2>1. k \in Nat /\ k <= f.caret /\ f.caret - k \in Nat /\ f.caret - k <= f.caret
    BY <1>1 DEF Least
  <2>2. u \in Seq(Chars) /\ Len(u) = (f.caret - k) + Len(<< >>) + (Len(f.text) - f.caret)
    <3> DEFINE w == f.caret - k
               e == << >>
    <3>1. /\ w \in Nat /\ w <= f.caret /\ f.caret \in Nat /\ f.caret <= Len(f.text)
          /\ f.text \in Seq(Chars) /\ e \in Seq(Chars)
      BY <1>1, <1>2, <2>1
    <3> HIDE DEF k, w, u, e
    <3>2. Replaced(f.text, w, f.caret, e, Splice(f.text, w, f.caret, e))
      BY <3>1, SpliceReplaces, Zenon
    <3> QED  BY <3>2 DEF Replaced, u, w, e
  <2>3. f.caret - k <= Len(u)
    BY <1>1, <1>2, <2>1, <2>2
  <2>4. Backspaced(f, n) = [f EXCEPT !.text = u, !.caret = f.caret - k]
    BY <1>1 DEF Backspaced
  <2> HIDE DEF u, k
  <2> QED  BY <1>1, <2>1, <2>2, <2>3, <2>4 DEF FieldTyped
<1>4. FieldTyped(Deleted(f, n))
  <2> DEFINE k == Least(f.caret + n, Len(f.text))
             u == Splice(f.text, f.caret, k, << >>)
  <2>1. k \in Nat /\ f.caret <= k /\ k <= Len(f.text)
    BY <1>1 DEF Least
  <2>2. u \in Seq(Chars) /\ Len(u) = f.caret + Len(<< >>) + (Len(f.text) - k)
    <3> DEFINE e == << >>
    <3>1. /\ f.caret \in Nat /\ f.text \in Seq(Chars) /\ e \in Seq(Chars)
      BY <1>1, <1>2
    <3> HIDE DEF k, u, e
    <3>2. Replaced(f.text, f.caret, k, e, Splice(f.text, f.caret, k, e))
      BY <2>1, <3>1, SpliceReplaces, Zenon
    <3> QED  BY <3>2 DEF Replaced, u, e
  <2>3. f.caret <= Len(u)
    BY <1>1, <1>2, <2>1, <2>2
  <2>4. Deleted(f, n) = [f EXCEPT !.text = u]
    BY <1>1 DEF Deleted
  <2> HIDE DEF u, k
  <2> QED  BY <1>1, <2>1, <2>2, <2>3, <2>4 DEF FieldTyped
<1>5. FieldTyped(Left(f, n))
  <2>1. f.caret - Least(n, f.caret) \in Nat /\ f.caret - Least(n, f.caret) <= Len(f.text)
    BY <1>1 DEF Least
  <2> QED  BY <1>1, <2>1 DEF FieldTyped, Left
<1>6. FieldTyped(Right(f, n))
  <2>1. Least(f.caret + n, Len(f.text)) \in Nat /\ Least(f.caret + n, Len(f.text)) <= Len(f.text)
    BY <1>1 DEF Least
  <2> QED  BY <1>1, <2>1 DEF FieldTyped, Right
<1> QED  BY <1>3, <1>4, <1>5, <1>6

LEMMA FieldInsert ==
  ASSUME NEW f, FieldTyped(f), NEW t \in Seq(Chars)
  PROVE  FieldTyped(Inserted(f, t))
<1>1. /\ f \in [text : Seq(Chars), caret : Nat, preedit : Texts] /\ f.caret <= Len(f.text)
      /\ f.text \in Seq(Chars) /\ f.caret \in Nat /\ Len(f.text) \in Nat /\ Len(t) \in Nat
      /\ f.caret <= f.caret
  BY LenProperties DEF FieldTyped
<1> DEFINE u == Splice(f.text, f.caret, f.caret, t)
<1>2. u \in Seq(Chars) /\ Len(u) = f.caret + Len(t) + (Len(f.text) - f.caret)
  BY <1>1, SpliceReplaces DEF Replaced
<1>3. Inserted(f, t) = [f EXCEPT !.text = u, !.caret = f.caret + Len(t)]
  BY <1>1 DEF Inserted
<1> HIDE DEF u
<1>4. f.caret + Len(t) \in Nat /\ f.caret + Len(t) <= Len(u)
  BY <1>1, <1>2
<1> QED  BY <1>1, <1>2, <1>3, <1>4 DEF FieldTyped

LEMMA FieldPreedit ==
  ASSUME NEW f, FieldTyped(f), NEW t \in Texts
  PROVE  FieldTyped([f EXCEPT !.preedit = t])
BY DEF FieldTyped

LEMMA FieldSurrounding ==
  ASSUME NEW f, FieldTyped(f), NEW b \in Nat, NEW n \in Nat
  PROVE  FieldTyped(SurroundingDeleted(f, b, n))
<1>1. f.text \in Seq(Chars) /\ f.caret \in Nat /\ Len(f.text) - f.caret \in Nat
  BY LenProperties DEF FieldTyped
<1>2. BytesBefore(f, b) \in Nat
  <2> DEFINE K == {k \in 0 .. f.caret : Bytes(Stretch(f.text, f.caret - k, f.caret)) <= b}
  <2>1. Stretch(f.text, f.caret - 0, f.caret) = << >> /\ 0 \in 0 .. f.caret
    BY <1>1, StretchEmpty
  <2>2. 0 \in K
    BY <2>1, EmptyCounts
  <2>3. K \subseteq 0 .. f.caret /\ K # {}
    BY <2>2
  <2> HIDE DEF K
  <2>4. Max(K) \in K
    BY <1>1, <2>3, MaxIn, Zenon
  <2>5. Max(K) \in Nat
    <3> DEFINE m == Max(K)
    <3>1. m \in K
      BY <2>4
    <3> HIDE DEF m
    <3>2. m \in Nat
      BY <1>1, <2>3, <3>1
    <3> QED  BY <3>2 DEF m
  <2> QED  BY <2>5 DEF K, BytesBefore
<1>3. BytesAfter(f, n) \in Nat
  <2> DEFINE c == Len(f.text) - f.caret
             K == {k \in 0 .. c : Bytes(Stretch(f.text, f.caret, f.caret + k)) <= n}
  <2>1. Stretch(f.text, f.caret, f.caret + 0) = << >> /\ 0 \in 0 .. c /\ c \in Nat
    BY <1>1, StretchEmpty
  <2>2. 0 \in K
    BY <2>1, EmptyCounts
  <2>3. K \subseteq 0 .. c /\ K # {}
    BY <2>2
  <2> HIDE DEF K, c
  <2>4. Max(K) \in K
    BY <2>1, <2>3, MaxIn, Zenon
  <2>5. Max(K) \in Nat
    <3> DEFINE m == Max(K)
    <3>1. m \in K
      BY <2>4
    <3> HIDE DEF m
    <3>2. m \in Nat
      BY <1>1, <2>3, <3>1
    <3> QED  BY <3>2 DEF m
  <2> QED  BY <2>5 DEF K, c, BytesAfter
<1>4. FieldTyped(Deleted(f, BytesAfter(f, n)))
  BY <1>3, FieldEdits
<1> QED  BY <1>2, <1>4, FieldEdits DEF SurroundingDeleted

LEMMA FieldRetyped ==
  ASSUME NEW f, FieldTyped(f), NEW a \in Seq(Chars), NEW t \in Seq(Chars)
  PROVE  FieldTyped(Retyped(f, a, t))
<1> DEFINE n == Len(LongestCommonPrefix({a, t}))
           z == Stretch(t, n, Len(t))
           g == Backspaced(f, Len(a) - n)
<1>1. n \in Nat /\ n <= Len(a) /\ n <= Len(t) /\ Len(a) \in Nat /\ Len(t) \in Nat
  BY CommonIs, LenProperties
<1> HIDE DEF n
<1>2. z \in Seq(Chars)
  BY <1>1, StretchIs
<1>3. Len(a) - n \in Nat
  BY <1>1
<1>4. FieldTyped(g)
  BY <1>3, FieldEdits
<1> HIDE DEF z, g
<1>5. FieldTyped(Inserted(g, WithKeys(z)))
  BY <1>2, <1>4, KeysTyped, FieldInsert
<1> QED  BY <1>5 DEF Retyped, g, z, n

LEMMA EmptyText == << >> \in Texts /\ << >> \in Seq(Chars) /\ Len(<< >>) = 0
<1>1. << >> \in Seq(Chars) /\ Len(<< >>) = 0
  BY EmptySeq
<1>2. Len(<< >>) <= MaxText
  BY <1>1, BoundsAssumption
<1> QED  BY <1>1, <1>2, TextsAre

LEMMA InitTypeInv == Init => TypeInv
<1> SUFFICES ASSUME Init PROVE TypeInv
  OBVIOUS
<1>1. EditorTyped
  <2>1. text = << >> /\ cursor = 0 /\ region = [start |-> 0, end |-> 0] /\ composingText = << >>
    BY DEF Init, NoRegion
  <2>2. 0 \in 0 .. Len(text) /\ region.start = 0 /\ region.end = 0 /\ region \in [start : Nat, end : Nat]
    BY <2>1, EmptyText
  <2> QED  BY <2>1, <2>2, EmptyText DEF EditorTyped
<1>2. FieldTyped(field)
  BY EmptyText DEF Init, FieldTyped
<1>3. events \in Seq(Event)
  BY EmptySeq DEF Init
<1>4. /\ currentInputType \in InputTypes /\ keyboard \in BOOLEAN /\ object \in BOOLEAN
      /\ declared \in InputTypes /\ astray \in BOOLEAN
  BY TypesAssumption DEF Init
<1>5. calls \in 0 .. MaxCalls /\ commits \in 0 .. MaxCommits
  BY BoundsAssumption DEF Init
<1>6. composing_text \in Texts
  BY EmptyText DEF Init
<1> QED  BY <1>1, <1>2, <1>3, <1>4, <1>5, <1>6 DEF TypeInv

-----------------------------------------------------------------------------
(* The events that the calls report. *)
LEMMA EventTyped ==
  ASSUME NEW type \in {"ImeComposing", "ImeCommit", "ImeDelete", "ImeRecompose", "Left", "Right",
                       "Backspace"},
         NEW t \in Texts, NEW m \in Nat, NEW n \in Nat
  PROVE  Ime(type, t, m, n) \in Event /\ <<Ime(type, t, m, n)>> \in Seq(Event)
<1>1. Ime(type, t, m, n) \in Event
  BY DEF Ime, Event
<1> QED  BY <1>1

LEMMA UnitsOfStretch ==
  ASSUME NEW s \in Texts, NEW from \in Nat, NEW to \in Nat, from <= to, to <= Len(s)
  PROVE  Units(Stretch(s, from, to)) \in Nat
BY StretchText, TextsAre, Counts

LEMMA ArrowsTyped ==
  ASSUME EditorTyped, NEW from \in 0 .. Len(text), NEW to \in 0 .. Len(text)
  PROVE  Arrows(from, to) \in Seq(Event)
<1>1. text \in Texts /\ Len(text) \in Nat
  BY TextsAre, LenProperties DEF EditorTyped
<1>2. CASE from > to
  <2>1. Units(Stretch(text, to, from)) \in Nat
    BY <1>1, <1>2, UnitsOfStretch
  <2>2. <<Ime("Left", << >>, Units(Stretch(text, to, from)), 0)>> \in Seq(Event)
    BY <2>1, EmptyText, EventTyped
  <2> QED  BY <1>2, <2>2 DEF Arrows, Keys
<1>3. CASE from < to
  <2>1. Units(Stretch(text, from, to)) \in Nat
    BY <1>1, <1>3, UnitsOfStretch
  <2>2. <<Ime("Right", << >>, Units(Stretch(text, from, to)), 0)>> \in Seq(Event)
    BY <2>1, EmptyText, EventTyped
  <2>3. ~(from > to)
    BY <1>1, <1>3
  <2> QED  BY <1>3, <2>2, <2>3 DEF Arrows, Keys
<1>4. CASE from = to
  BY <1>1, <1>4, EmptySeq DEF Arrows
<1> QED  BY <1>1, <1>2, <1>3, <1>4

LEMMA FinishingTyped ==
  ASSUME EditorTyped
  PROVE  Finishing \in Seq(Event)
<1>1. <<Ime("ImeCommit", composingText, 0, 0)>> \in Seq(Event)
  BY EventTyped DEF EditorTyped
<1> QED  BY <1>1, EmptySeq DEF Finishing

LEMMA TargetTyped ==
  ASSUME EditorTyped
  PROVE  /\ Target \in [start : Nat, end : Nat]
         /\ Target.start <= Target.end /\ Target.end <= Len(text)
<1>1. Len(text) \in Nat
  BY TextsAre, LenProperties DEF EditorTyped
<1> QED  BY <1>1 DEF EditorTyped, Target

(* What a Replace makes of the text. *)
LEMMA ReplaceIs ==
  ASSUME EditorTyped, NEW r \in [start : Nat, end : Nat], r.start <= r.end, r.end <= Len(text),
         NEW t \in Texts, Replace(r, t)
  PROVE  /\ Replaced(text, r.start, r.end, t, text')
         /\ text' \in Texts /\ cursor' = r.start + Len(t)
         /\ Len(text') \in Nat /\ Len(t) \in Nat /\ r.start + Len(t) <= Len(text')
<1>1. /\ text \in Seq(Chars) /\ t \in Seq(Chars) /\ Len(text) \in Nat /\ Len(t) \in Nat
      /\ r.start \in Nat /\ r.end \in Nat
  BY TextsAre, LenProperties DEF EditorTyped
<1>2. /\ text' = Splice(text, r.start, r.end, t) /\ text' \in Texts
      /\ cursor' = r.start + Len(t)
  BY DEF Replace
<1>3. Replaced(text, r.start, r.end, t, Splice(text, r.start, r.end, t))
  BY <1>1, SpliceReplaces, Zenon
<1>4. Replaced(text, r.start, r.end, t, text')
  BY <1>2, <1>3
<1>5. Len(text') = r.start + Len(t) + (Len(text) - r.end)
  BY <1>4 DEF Replaced
<1>6. Len(text') \in Nat /\ r.start + Len(t) <= Len(text')
  BY <1>1, <1>5
<1> QED  BY <1>1, <1>2, <1>4, <1>6

(* A call keeps the types of what it does not edit. *)
LEMMA CallTypes ==
  ASSUME TypeInv, EditorTyped', NEW sent \in Seq(Event), NEW strays \in BOOLEAN,
         Call(sent, strays)
  PROVE  TypeInv'
<1>1. /\ calls < MaxCalls /\ calls' = calls + 1
      /\ astray' = strays
      /\ events' = events \o sent
      /\ UNCHANGED <<currentInputType, keyboard, composing_text, object, field, declared, commits>>
  BY DEF Call, keyboardVars, compositorVars, clientVars
<1>2. calls' \in 0 .. MaxCalls
  BY <1>1, BoundsAssumption DEF TypeInv
<1>3. events' \in Seq(Event)
  <2>1. events \in Seq(Event)
    BY DEF TypeInv
  <2> QED  BY <1>1, <2>1, ConcatProperties
<1> QED  BY <1>1, <1>2, <1>3 DEF TypeInv

LEMMA ComposingTypes ==
  ASSUME TypeInv, NEW t \in Texts, setComposingText(t)
  PROVE  EditorTyped'
<1> USE DEF TypeInv
<1>1. PICK r \in [start : Nat, end : Nat] : r = Target /\ r.start <= r.end /\ r.end <= Len(text)
  BY TargetTyped
<1>2. /\ Replace(r, t) /\ composingText' = t
      /\ region' = IF t = << >> THEN NoRegion ELSE [start |-> r.start, end |-> r.start + Len(t)]
  BY <1>1 DEF setComposingText
<1>3. /\ text' \in Texts /\ cursor' = r.start + Len(t)
      /\ Len(text') \in Nat /\ Len(t) \in Nat /\ r.start + Len(t) <= Len(text')
  BY <1>1, <1>2, ReplaceIs
<1>4. r.start \in Nat
  OBVIOUS
<1>5. /\ region' \in [start : Nat, end : Nat]
      /\ region'.start <= region'.end /\ region'.end <= Len(text')
  BY <1>2, <1>3, <1>4 DEF NoRegion
<1>6. cursor' \in 0 .. Len(text')
  BY <1>3, <1>4
<1> QED  BY <1>2, <1>3, <1>5, <1>6 DEF EditorTyped

LEMMA CommitTypes ==
  ASSUME TypeInv, NEW t \in Texts, NEW r \in [start : Nat, end : Nat],
         r.start <= r.end, r.end <= Len(text), Replace(r, t),
         region' = NoRegion, composingText' \in Texts
  PROVE  EditorTyped'
<1>1. /\ text' \in Texts /\ cursor' = r.start + Len(t)
      /\ Len(text') \in Nat /\ Len(t) \in Nat /\ r.start + Len(t) <= Len(text')
  BY ReplaceIs DEF TypeInv
<1>2. /\ region' \in [start : Nat, end : Nat]
      /\ region'.start <= region'.end /\ region'.end <= Len(text')
  BY <1>1 DEF NoRegion
<1>3. cursor' \in 0 .. Len(text')
  BY <1>1
<1> QED  BY <1>1, <1>2, <1>3 DEF EditorTyped

(* A deletion counts from the cursor, and spares the region. *)
DeleteFrom == IF Composing THEN Least(region.start, cursor) ELSE cursor
DeleteTo   == IF Composing /\ region.end > cursor THEN region.end ELSE cursor
DeletedBefore(before) == Stretch(text, cursor - Least(before, cursor), cursor)
DeletedAfter(after)   == Stretch(text, DeleteTo, Least(DeleteTo + after, Len(text)))
DeleteEvent(before, after) ==
  Ime("ImeDelete", DeletedBefore(before),
      Units(DeletedBefore(before)) + before - Len(DeletedBefore(before)),
      Units(DeletedAfter(after)) + after - Len(DeletedAfter(after)))

LEMMA DeleteIs ==
  ASSUME NEW before, NEW after, deleteSurroundingText(before, after)
  PROVE  LET d == Len(DeletedAfter(after))
             b == Least(before, DeleteFrom)
         IN  /\ Call(<<DeleteEvent(before, after)>>, Composing \/ IsWide(DeletedAfter(after)))
             /\ text' = Splice(Splice(text, DeleteTo, DeleteTo + d, << >>), DeleteFrom - b,
                               DeleteFrom, << >>)
             /\ cursor' = cursor - b
             /\ region' = IF Composing THEN [start |-> region.start - b, end |-> region.end - b]
                          ELSE NoRegion
             /\ composingText' = composingText
BY DEF deleteSurroundingText, DeleteFrom, DeleteTo, DeletedBefore, DeletedAfter, DeleteEvent

LEMMA DeleteEventTyped ==
  ASSUME EditorTyped, NEW before \in Nat, NEW after \in Nat
  PROVE  DeleteEvent(before, after) \in Event /\ <<DeleteEvent(before, after)>> \in Seq(Event)
<1>1. text \in Texts /\ Len(text) \in Nat /\ cursor \in Nat /\ cursor <= Len(text)
  BY TextsAre, LenProperties DEF EditorTyped
<1> DEFINE k == cursor - Least(before, cursor)
           m == Least(DeleteTo + after, Len(text))
           x == DeletedBefore(before)
           y == DeletedAfter(after)
<1>2. k \in Nat /\ k <= cursor
  BY <1>1 DEF Least
<1>3. DeleteTo \in Nat /\ DeleteTo <= Len(text)
  BY <1>1 DEF DeleteTo, EditorTyped
<1>4. m \in Nat /\ DeleteTo <= m /\ m <= Len(text)
  BY <1>1, <1>3 DEF Least
<1>5. x \in Texts /\ Len(x) = cursor - k
  <2> HIDE DEF k
  <2> QED  BY <1>1, <1>2, StretchText DEF DeletedBefore, k
<1>6. y \in Texts /\ Len(y) = m - DeleteTo
  <2> HIDE DEF m
  <2> QED  BY <1>1, <1>3, <1>4, StretchText DEF DeletedAfter, m
<1> HIDE DEF x, y
<1>7. Units(x) \in Nat /\ Units(x) >= Len(x) /\ Units(y) \in Nat /\ Units(y) >= Len(y)
      /\ Len(x) \in Nat /\ Len(y) \in Nat
  BY <1>5, <1>6, TextsAre, Counts
<1>8. Units(x) + before - Len(x) \in Nat /\ Units(y) + after - Len(y) \in Nat
  BY <1>7
<1>9. /\ Ime("ImeDelete", x, Units(x) + before - Len(x), Units(y) + after - Len(y)) \in Event
      /\ <<Ime("ImeDelete", x, Units(x) + before - Len(x), Units(y) + after - Len(y))>> \in Seq(Event)
  BY <1>5, <1>8, EventTyped
<1> QED  BY <1>9 DEF DeleteEvent, x, y

LEMMA DeleteTypes ==
  ASSUME TypeInv, NEW before \in Nat, NEW after \in Nat, deleteSurroundingText(before, after)
  PROVE  EditorTyped'
<1> DEFINE from == DeleteFrom
           to == DeleteTo
           d == Len(DeletedAfter(after))
           b == Least(before, from)
           u == Splice(text, to, to + d, << >>)
<1>1. /\ text \in Texts /\ text \in Seq(Chars) /\ Len(text) \in Nat
      /\ cursor \in Nat /\ cursor <= Len(text) /\ << >> \in Seq(Chars) /\ Len(<< >>) = 0
  BY TextsAre, LenProperties, EmptySeq DEF TypeInv, EditorTyped
<1>2. /\ region \in [start : Nat, end : Nat] /\ region.start \in Nat /\ region.end \in Nat
      /\ region.start <= region.end /\ region.end <= Len(text)
  BY DEF TypeInv, EditorTyped
<1>3. /\ from \in Nat /\ to \in Nat /\ from <= cursor /\ cursor <= to /\ to <= Len(text)
      /\ Composing => from <= region.start /\ region.end <= to
  BY <1>1, <1>2 DEF DeleteFrom, DeleteTo, Least
<1>4. d \in Nat /\ to + d <= Len(text)
  <2> DEFINE m == Least(to + after, Len(text))
  <2>1. m \in Nat /\ to <= m /\ m <= Len(text)
    BY <1>1, <1>3 DEF Least
  <2> HIDE DEF m
  <2>2. Len(Stretch(text, to, m)) = m - to
    BY <1>1, <1>3, <2>1, StretchText
  <2> QED  BY <1>1, <1>3, <2>1, <2>2 DEF DeletedAfter, m
<1>5. b \in Nat /\ b <= from /\ from - b \in Nat /\ from - b <= from
  BY <1>3 DEF Least
<1>6. /\ text' = Splice(u, from - b, from, << >>)
      /\ cursor' = cursor - b
      /\ region' = IF Composing THEN [start |-> region.start - b, end |-> region.end - b]
                   ELSE NoRegion
      /\ composingText' = composingText
  BY DeleteIs
<1> HIDE DEF from, to, d, b
<1>7. Replaced(text, to, to + d, << >>, u)
  <2>1. to \in Nat /\ to + d \in Nat /\ to <= to + d
    BY <1>3, <1>4
  <2> QED  BY <1>1, <1>4, <2>1, SpliceReplaces, Zenon
<1> HIDE DEF u
<1>8. u \in Seq(Chars) /\ Len(u) = Len(text) - d /\ from <= Len(u)
  BY <1>1, <1>3, <1>4, <1>7 DEF Replaced
<1>9. Replaced(u, from - b, from, << >>, Splice(u, from - b, from, << >>))
  BY <1>1, <1>3, <1>5, <1>8, SpliceReplaces, Zenon
<1>10. text' \in Seq(Chars) /\ Len(text') = (Len(text) - d) - b
  BY <1>1, <1>3, <1>5, <1>6, <1>8, <1>9 DEF Replaced
<1>11. text' \in Texts /\ Len(text') \in Nat
  BY <1>1, <1>3, <1>4, <1>5, <1>10, TextsAre, BoundsAssumption
<1>12. cursor' \in 0 .. Len(text')
  BY <1>1, <1>3, <1>4, <1>5, <1>6, <1>10
<1>13. /\ region' \in [start : Nat, end : Nat]
       /\ region'.start <= region'.end /\ region'.end <= Len(text')
  BY <1>2, <1>3, <1>4, <1>5, <1>6, <1>10, <1>11 DEF NoRegion
<1> QED  BY <1>6, <1>11, <1>12, <1>13 DEF EditorTyped, TypeInv

-----------------------------------------------------------------------------
LEMMA ImeCallTypes ==
  ASSUME TypeInv, ImeCall
  PROVE  TypeInv'
<1>0. /\ EditorTyped /\ text \in Texts /\ Len(text) \in Nat /\ cursor \in 0 .. Len(text)
      /\ composingText \in Texts
  BY TextsAre, LenProperties DEF TypeInv, EditorTyped
<1>1. ASSUME NEW t \in Texts, setComposingText(t)  PROVE TypeInv'
  <2>1. Call(<<Ime("ImeComposing", t, 0, 0)>>, FALSE)
    BY <1>1 DEF setComposingText
  <2>2. <<Ime("ImeComposing", t, 0, 0)>> \in Seq(Event)
    BY EventTyped
  <2> QED  BY <1>1, <2>1, <2>2, ComposingTypes, CallTypes
<1>2. ASSUME NEW t \in Texts, commitText(t)  PROVE TypeInv'
  <2>1. Call(<<Ime("ImeCommit", t, 0, 0)>>, FALSE)
    BY <1>2 DEF commitText
  <2>2. <<Ime("ImeCommit", t, 0, 0)>> \in Seq(Event)
    BY EventTyped
  <2>3. PICK r \in [start : Nat, end : Nat] : r = Target /\ r.start <= r.end /\ r.end <= Len(text)
    BY <1>0, TargetTyped
  <2>4. Replace(r, t) /\ region' = NoRegion /\ composingText' = << >>
    BY <1>2, <2>3 DEF commitText
  <2>5. EditorTyped'
    BY <2>3, <2>4, CommitTypes, EmptyText
  <2> QED  BY <2>1, <2>2, <2>5, CallTypes
<1>3. ASSUME NEW before \in 0 .. 2, NEW after \in 0 .. 1, deleteSurroundingText(before, after)
      PROVE  TypeInv'
  <2>1. before \in Nat /\ after \in Nat
    OBVIOUS
  <2>2. Call(<<DeleteEvent(before, after)>>, Composing \/ IsWide(DeletedAfter(after)))
    BY <1>3, DeleteIs
  <2>3. EditorTyped'
    BY <1>3, <2>1, DeleteTypes
  <2>4. <<DeleteEvent(before, after)>> \in Seq(Event)
    BY <1>0, <2>1, DeleteEventTyped
  <2> QED  BY <2>2, <2>3, <2>4, CallTypes
<1>4. CASE finishComposingText
  <2>1. Call(Finishing, CaretLeftBehind) /\ region' = NoRegion /\ composingText' = << >>
        /\ UNCHANGED <<text, cursor>>
    BY <1>4 DEF finishComposingText
  <2>2. EditorTyped'
    BY <1>0, <2>1, EmptyText DEF EditorTyped, NoRegion
  <2>3. CaretLeftBehind \in BOOLEAN
    BY DEF CaretLeftBehind
  <2> QED  BY <1>0, <2>1, <2>2, <2>3, FinishingTyped, CallTypes
<1>5. ASSUME NEW start \in Positions, NEW end \in Positions, start <= end,
             setComposingRegion(start, end)
      PROVE  TypeInv'
  <2>1. start \in 0 .. Len(text) /\ end \in 0 .. Len(text) /\ start \in Nat /\ end \in Nat
    BY <1>0 DEF Positions
  <2> DEFINE y == Stretch(text, start, end)
             sent == Arrows(cursor, end) \o <<Ime("ImeRecompose", y, 0, 0)>>
             strays == Composing \/ OverWide(cursor, end) \/ (start = end /\ cursor # end)
  <2>2. y \in Texts
    BY <1>0, <1>5, <2>1, StretchText
  <2>3. sent \in Seq(Event)
    <3>1. Arrows(cursor, end) \in Seq(Event)
      BY <1>0, <2>1, ArrowsTyped
    <3>2. <<Ime("ImeRecompose", y, 0, 0)>> \in Seq(Event)
      BY <2>2, EventTyped
    <3> QED  BY <3>1, <3>2, ConcatProperties
  <2>4. Call(sent, strays) /\ composingText' = y
        /\ region' = (IF start < end THEN [start |-> start, end |-> end] ELSE NoRegion)
        /\ UNCHANGED <<text, cursor>>
    BY <1>5 DEF setComposingRegion, Call
  <2>5. EditorTyped'
    BY <1>0, <1>5, <2>1, <2>2, <2>4 DEF EditorTyped, NoRegion
  <2>6. strays \in BOOLEAN
    OBVIOUS
  <2> HIDE DEF sent, strays
  <2> QED  BY <2>3, <2>4, <2>5, <2>6, CallTypes
<1>6. ASSUME NEW start \in Positions, NEW end \in Positions, NEW t \in Short, start <= end,
             replaceText(start, end, t)
      PROVE  TypeInv'
  <2>1. start \in 0 .. Len(text) /\ end \in 0 .. Len(text) /\ start \in Nat /\ end \in Nat
        /\ t \in Texts
    BY <1>0 DEF Positions, Short
  <2> DEFINE y == Stretch(text, start, end)
             keys == <<Keys("Backspace", Units(y)), Ime("ImeCommit", t, 0, 0)>>
             sent == Arrows(cursor, end) \o keys
             strays == Composing \/ OverWide(cursor, end) \/ OverWide(start, end)
             r == [start |-> start, end |-> end]
  <2>2. Units(y) \in Nat
    BY <1>0, <1>6, <2>1, UnitsOfStretch
  <2>3. sent \in Seq(Event)
    <3>1. Arrows(cursor, end) \in Seq(Event)
      BY <1>0, <2>1, ArrowsTyped
    <3>2. Keys("Backspace", Units(y)) \in Event /\ Ime("ImeCommit", t, 0, 0) \in Event
      BY <2>1, <2>2, EmptyText, EventTyped DEF Keys
    <3>3. keys \in Seq(Event)
      BY <3>2
    <3> QED  BY <3>1, <3>3, ConcatProperties
  <2>4. Call(sent, strays) /\ Replace(r, t) /\ composingText' = composingText
        /\ region' = NoRegion
    BY <1>6 DEF replaceText
  <2>5. EditorTyped'
    <3>1. r \in [start : Nat, end : Nat] /\ r.start <= r.end /\ r.end <= Len(text)
      BY <1>0, <1>6, <2>1
    <3> HIDE DEF r
    <3> QED  BY <1>0, <2>1, <2>4, <3>1, CommitTypes
  <2>6. strays \in BOOLEAN
    OBVIOUS
  <2> HIDE DEF sent, strays
  <2> QED  BY <2>3, <2>4, <2>5, <2>6, CallTypes
<1>7. ASSUME NEW position \in Positions, setSelection(position)  PROVE TypeInv'
  <2>1. position \in 0 .. Len(text)
    BY DEF Positions
  <2>2. Call(Arrows(cursor, position), Composing \/ OverWide(cursor, position))
        /\ cursor' = position /\ UNCHANGED <<text, region, composingText>>
    BY <1>7 DEF setSelection
  <2>3. EditorTyped'
    BY <1>0, <2>1, <2>2 DEF EditorTyped
  <2>4. Arrows(cursor, position) \in Seq(Event)
    BY <1>0, <2>1, ArrowsTyped
  <2> QED  BY <2>2, <2>3, <2>4, CallTypes
<1> QED  BY <1>1, <1>2, <1>3, <1>4, <1>5, <1>6, <1>7 DEF ImeCall

LEMMA VisibleTypes ==
  ASSUME TypeInv, RequestsTyped, setSoftKeyboardVisible
  PROVE  TypeInv'
<1> DEFINE r == Head(posted)
           restarts == r.visible /\ r.type # currentInputType
<1>1. /\ posted # << >>
      /\ keyboard' = r.visible
      /\ currentInputType' = (IF r.visible THEN r.type ELSE currentInputType)
      /\ events' = events \o (IF restarts THEN Finishing ELSE << >>)
      /\ region' = (IF restarts THEN NoRegion ELSE region)
      /\ composingText' = (IF restarts THEN << >> ELSE composingText)
      /\ astray' = (restarts /\ CaretLeftBehind)
      /\ UNCHANGED <<text, cursor, composing_text, object, declared, commits, field, calls>>
  BY DEF setSoftKeyboardVisible, compositorVars, clientVars
<1>2. r \in Request
  BY <1>1 DEF RequestsTyped
<1>3. r.visible \in BOOLEAN /\ r.type \in InputTypes
  BY <1>2 DEF Request
<1> HIDE DEF r
<1>4. EditorTyped'
  BY <1>1, EmptyText, TextsAre, LenProperties DEF TypeInv, EditorTyped, NoRegion
<1>5. events' \in Seq(Event)
  <2>1. events \in Seq(Event) /\ Finishing \in Seq(Event) /\ << >> \in Seq(Event)
    BY FinishingTyped, EmptySeq DEF TypeInv
  <2>2. events \o Finishing \in Seq(Event) /\ events \o << >> \in Seq(Event)
    BY <2>1, ConcatProperties
  <2> QED  BY <1>1, <2>2
<1>6. astray' \in BOOLEAN
  BY <1>1
<1> QED  BY <1>1, <1>3, <1>4, <1>5, <1>6 DEF TypeInv

(* What the compositor makes of an event. *)
LEMMA EventTypes ==
  ASSUME TypeInv, process_window_events
  PROVE  TypeInv'
<1> DEFINE e == Head(events)
<1>1. /\ events # << >> /\ events' = Tail(events)
      /\ \/ handle_ime_composing(e) \/ handle_ime_commit(e) \/ handle_ime_delete(e)
         \/ handle_ime_recompose(e) \/ handle_activity_key(e)
      /\ ~astray
  BY DEF process_window_events
<1>0. UNCHANGED <<text, cursor, region, composingText, keyboard, currentInputType, object,
                    declared, commits, calls>>
  BY DEF process_window_events, editorVars, keyboardVars, clientVars
<1>2. e \in Event /\ events' \in Seq(Event)
  BY <1>1, HeadTailProperties DEF TypeInv
<1> HIDE DEF e
<1>3. e.text \in Texts /\ e.text \in Seq(Chars) /\ e.before \in Nat /\ e.after \in Nat
      /\ Bytes(e.text) \in Nat
  BY <1>2, TextsAre, Counts DEF Event
<1>4. FieldTyped(field) /\ composing_text \in Texts /\ composing_text \in Seq(Chars)
  BY TextsAre DEF TypeInv
<1>5. << >> \in Texts
  BY EmptyText
<1>6. EditorTyped'
  BY <1>0 DEF TypeInv, EditorTyped
<1>7. ASSUME NEW t \in Texts, send_ime_key_events(t)
      PROVE  FieldTyped(field') /\ astray' \in BOOLEAN
  <2>1. field' = Retyped(field, composing_text, t) /\ astray' = IsWide(composing_text \o t)
    BY <1>7 DEF send_ime_key_events, Retyped
  <2>2. astray' \in BOOLEAN
    BY <2>1 DEF IsWide
  <2>3. FieldTyped(Retyped(field, composing_text, t))
    BY <1>4, FieldRetyped, TextsAre
  <2> QED  BY <2>1, <2>2, <2>3
<1>8. /\ FieldTyped(field') /\ composing_text' \in Texts /\ astray' \in BOOLEAN
  <2>1. CASE handle_ime_composing(e)
    <3>1. composing_text' = e.text
      BY <2>1 DEF handle_ime_composing
    <3>2. FieldTyped([field EXCEPT !.preedit = e.text])
      BY <1>3, <1>4, FieldPreedit
    <3>3. CASE send_preedit(e.text) /\ UNCHANGED astray
      BY <1>3, <3>1, <3>2, <3>3 DEF TypeInv, send_preedit
    <3>4. CASE send_ime_key_events(e.text)
      BY <1>3, <1>7, <3>1, <3>4
    <3> QED  BY <2>1, <3>3, <3>4 DEF handle_ime_composing
  <2>2. CASE handle_ime_commit(e)
    <3>1. composing_text' = << >>
      BY <2>2 DEF handle_ime_commit
    <3> DEFINE g == [field EXCEPT !.preedit = << >>]
    <3>2. FieldTyped(g)
      BY <1>4, <1>5, FieldPreedit
    <3>3. FieldTyped(Inserted(g, e.text))
      <4> HIDE DEF g
      <4> QED  BY <1>3, <3>2, FieldInsert
    <3>4. CASE send_commit(e.text) /\ UNCHANGED astray
      BY <1>5, <3>1, <3>3, <3>4 DEF TypeInv, send_commit
    <3>5. CASE send_ime_key_events(e.text)
      BY <1>3, <1>5, <1>7, <3>1, <3>5
    <3> QED  BY <2>2, <3>4, <3>5 DEF handle_ime_commit
  <2>3. CASE handle_ime_delete(e)
    <3>1. composing_text' = composing_text
      BY <2>3 DEF handle_ime_delete
    <3>2. CASE send_delete(e) /\ UNCHANGED astray
      <4> DEFINE n == IF e.text = << >> THEN e.before ELSE Bytes(e.text)
      <4>1. n \in Nat
        BY <1>3
      <4>2. field' = SurroundingDeleted(field, n, e.after)
        BY <3>2 DEF send_delete
      <4> HIDE DEF n
      <4>3. FieldTyped(SurroundingDeleted(field, n, e.after))
        BY <1>3, <1>4, <4>1, FieldSurrounding
      <4> QED  BY <1>4, <3>1, <3>2, <4>2, <4>3 DEF TypeInv
    <3>3. CASE /\ field' = Deleted(Backspaced(field, e.before), e.after)
               /\ astray' = IsWide(e.text)
      <4>1. FieldTyped(Backspaced(field, e.before))
        BY <1>3, <1>4, FieldEdits
      <4>2. FieldTyped(Deleted(Backspaced(field, e.before), e.after))
        BY <1>3, <4>1, FieldEdits
      <4>3. astray' \in BOOLEAN
        BY <3>3 DEF IsWide
      <4> QED  BY <1>4, <3>1, <3>3, <4>2, <4>3
    <3> QED  BY <2>3, <3>2, <3>3 DEF handle_ime_delete
  <2>4. CASE handle_ime_recompose(e)
    <3>1. composing_text' = e.text /\ astray' = astray
      BY <2>4 DEF handle_ime_recompose
    <3>2. FieldTyped(SurroundingDeleted(field, Bytes(e.text), 0))
      BY <1>3, <1>4, FieldSurrounding
    <3>3. FieldTyped([SurroundingDeleted(field, Bytes(e.text), 0) EXCEPT !.preedit = e.text])
      BY <1>3, <3>2, FieldPreedit
    <3>4. FieldTyped(field')
      BY <1>4, <2>4, <3>3 DEF handle_ime_recompose, send_recompose
    <3> QED  BY <1>3, <3>1, <3>4 DEF TypeInv
  <2>5. CASE handle_activity_key(e)
    <3>1. UNCHANGED <<composing_text, astray>>
      BY <2>5 DEF handle_activity_key
    <3>2. field' \in {Left(field, e.before), Right(field, e.before), Backspaced(field, e.before)}
      BY <2>5 DEF handle_activity_key
    <3>3. FieldTyped(field')
      BY <1>3, <1>4, <3>2, FieldEdits
    <3> QED  BY <1>4, <3>1, <3>3 DEF TypeInv
  <2> QED  BY <1>1, <2>1, <2>2, <2>3, <2>4, <2>5
<1>9. FieldTyped(field)'
  BY <1>8 DEF FieldTyped
<1> QED  BY <1>0, <1>2, <1>6, <1>8, <1>9 DEF TypeInv

LEMMA CommitTypesKept ==
  ASSUME TypeInv, ClientCommit, active \in BOOLEAN
  PROVE  TypeInv'
<1>0. << >> \in Texts /\ FieldTyped([field EXCEPT !.preedit = << >>])
  BY EmptyText, FieldPreedit DEF TypeInv
<1>1. ASSUME Commit
      PROVE  /\ commits' \in 0 .. MaxCommits
             /\ UNCHANGED <<text, cursor, region, composingText, keyboard, currentInputType,
                            events, calls>>
  BY <1>1, BoundsAssumption DEF Commit, TypeInv, editorVars, keyboardVars
<1>2. ASSUME UNCHANGED <<text, cursor, region, composingText>>  PROVE EditorTyped'
  BY <1>2 DEF TypeInv, EditorTyped
<1>3. ASSUME NEW pending \in PendingTypes, CommitEnable(pending)  PROVE TypeInv'
  <2>1. /\ Commit /\ field' = [field EXCEPT !.preedit = << >>]
        /\ declared' = android_input_type(pending) /\ astray' = TypedComposition
        /\ UNCHANGED <<composing_text, object>>
    BY <1>3 DEF CommitEnable
  <2>2. declared' \in InputTypes
    BY <2>1, AndroidTypes
  <2>3. astray' \in BOOLEAN
    BY <2>1 DEF TypedComposition
  <2>4. FieldTyped(field)'
    BY <1>0, <2>1 DEF FieldTyped
  <2> QED  BY <1>1, <1>2, <2>1, <2>2, <2>3, <2>4 DEF TypeInv
<1>4. CASE CommitDisable
  <2>1. /\ Commit /\ field' = [field EXCEPT !.preedit = << >>]
        /\ composing_text' = << >> /\ astray' = TypedComposition
        /\ UNCHANGED <<declared, object>>
    BY <1>4 DEF CommitDisable, SessionEnds
  <2>2. astray' \in BOOLEAN
    BY <2>1 DEF TypedComposition
  <2>3. FieldTyped(field)'
    BY <1>0, <2>1 DEF FieldTyped
  <2> QED  BY <1>0, <1>1, <1>2, <2>1, <2>2, <2>3 DEF TypeInv
<1>5. ASSUME NEW type \in InputTypes, CommitContentType(type)  PROVE TypeInv'
  <2>1. /\ Commit /\ declared' \in {type, declared}
        /\ UNCHANGED <<composing_text, object, field, astray>>
    BY <1>5 DEF CommitContentType, compositorVars
  <2>2. FieldTyped(field)' <=> FieldTyped(field)
    BY <2>1 DEF FieldTyped
  <2>3. declared' \in InputTypes
    BY <2>1 DEF TypeInv
  <2> QED  BY <1>1, <1>2, <2>1, <2>2, <2>3 DEF TypeInv
<1>6. CASE destroyed
  <2>1. /\ object' = FALSE
        /\ UNCHANGED <<text, cursor, region, composingText, keyboard, currentInputType,
                       events, declared, commits, calls, astray>>
    BY <1>6 DEF destroyed, editorVars, keyboardVars
  <2>2. \/ field' = [field EXCEPT !.preedit = << >>] /\ composing_text' = << >>
        \/ field' = field /\ composing_text' = composing_text
    BY <1>6 DEF destroyed, SessionEnds, compositorVars
  <2>3. FieldTyped(field)' /\ composing_text' \in Texts
    BY <1>0, <2>2 DEF TypeInv, FieldTyped
  <2> QED  BY <1>2, <2>1, <2>3 DEF TypeInv
<1> QED  BY <1>3, <1>4, <1>5, <1>6 DEF ClientCommit

LEMMA SameTypes ==
  ASSUME TypeInv,
         UNCHANGED <<text, cursor, region, composingText, currentInputType, keyboard, events,
                     composing_text, object, field, declared, calls, commits, astray>>
  PROVE  TypeInv'
<1>1. EditorTyped' /\ FieldTyped(field)'
  BY DEF TypeInv, EditorTyped, FieldTyped
<1> QED  BY <1>1 DEF TypeInv

LEMMA NextTypeInv == TypeInv /\ KeyboardInv /\ [Next]_vars => TypeInv'
<1> SUFFICES ASSUME TypeInv, KeyboardInv, [Next]_vars PROVE TypeInv'
  OBVIOUS
<1>1. RequestsTyped /\ active \in BOOLEAN
  BY DEF KeyboardInv, RequestsTyped
<1>2. CASE UNCHANGED vars
  BY <1>2, SameTypes DEF vars, editorVars, keyboardVars, compositorVars, clientVars
<1>3. CASE take_soft_keyboard_request
  BY <1>3, SameTypes DEF take_soft_keyboard_request, editorVars, keyboardVars, compositorVars,
                         clientVars
<1> QED
  BY <1>1, <1>2, <1>3, ImeCallTypes, VisibleTypes, EventTypes, CommitTypesKept DEF Next

(* The text and the region of the Editable, the events and requests on     *)
(* their way and the client's field are well formed in every state, after  *)
(* the two have parted too: a position never lies outside its text.        *)
THEOREM EditingTypes == Spec => []TypeOK
<1>1. Init => TypeInv /\ KeyboardInv
  BY InitTypeInv, InitKeyboardInv
<1>2. TypeInv /\ KeyboardInv /\ [Next]_vars => TypeInv' /\ KeyboardInv'
  BY NextTypeInv, NextKeyboardInv
<1>3. TypeInv /\ KeyboardInv => TypeOK
  BY TypesSuffice DEF KeyboardInv
<1> QED  BY <1>1, <1>2, <1>3, PTL DEF Spec

-----------------------------------------------------------------------------
(* A stage of an edit: the text on both sides of a composition, and the    *)
(* composition itself, which is between them.  Without one, the two meet   *)
(* at the cursor.                                                          *)
Stage == [left : Seq(Chars), right : Seq(Chars), comp : Seq(Chars)]

Between(s, a, b, c) ==
  [left |-> Stretch(s, 0, a), right |-> Stretch(s, b, Len(s)), comp |-> c]

(* The stage of the Editable. *)
EditorStage == Between(text, Target.start, Target.end, composingText)

(* The stage t that an event makes of the stage s.  A deletion may count   *)
(* more than there is, on a side where nothing is left of the text.        *)
Deletes(e, s, t) ==
  /\ s.left = t.left \o e.text
  /\ e.before = Units(e.text) \/ (e.before > Units(e.text) /\ t.left = << >>)
  /\ \E y \in Seq(Chars) :
       /\ s.right = y \o t.right
       /\ ~IsWide(y)
       /\ e.after = Len(y) \/ (e.after > Len(y) /\ t.right = << >>)

Effect(e, s, t) ==
  \/ e.type = "ImeComposing" /\ t.left = s.left /\ t.right = s.right /\ t.comp = e.text
  \/ e.type = "ImeCommit" /\ t.left = s.left \o e.text /\ t.right = s.right /\ t.comp = << >>
  \/ e.type = "ImeDelete" /\ s.comp = << >> /\ Deletes(e, s, t) /\ t.comp = << >>
  \/ /\ e.type = "ImeRecompose" /\ s.comp = << >>
     /\ s.left = t.left \o e.text /\ t.right = s.right /\ t.comp = e.text
  \/ /\ e.type = "Left" /\ s.comp = << >> /\ t.comp = << >>
     /\ \E y \in Seq(Chars) :
          s.left = t.left \o y /\ t.right = y \o s.right /\ e.before = Len(y)
  \/ /\ e.type = "Right" /\ s.comp = << >> /\ t.comp = << >>
     /\ \E y \in Seq(Chars) :
          t.left = s.left \o y /\ s.right = y \o t.right /\ e.before = Len(y)
  \/ /\ e.type = "Backspace" /\ s.comp = << >> /\ t.comp = << >>
     /\ t.right = s.right
     /\ \E y \in Seq(Chars) : s.left = t.left \o y /\ e.before = Len(y)

(* The events of q lead from the stage s to the stage u, one after another.*)
IsPath(p, q, s, u) ==
  /\ p \in [0 .. Len(q) -> Stage]
  /\ p[0] = s /\ p[Len(q)] = u
  /\ \A i \in 1 .. Len(q) : Effect(q[i], p[i - 1], p[i])
Leads(q, s, u) == \E p : IsPath(p, q, s, u)

LEMMA LeadsNowhere ==
  ASSUME NEW s \in Stage, NEW u \in Stage
  PROVE  Leads(<< >>, s, u) <=> s = u
<1>1. Len(<< >>) = 0
  BY EmptySeq
<1>2. ASSUME s = u  PROVE Leads(<< >>, s, u)
  <2> DEFINE p == [i \in 0 .. 0 |-> s]
  <2>1. p \in [0 .. 0 -> Stage] /\ p[0] = s /\ 1 .. 0 = {}
    OBVIOUS
  <2> HIDE DEF p
  <2>2. IsPath(p, << >>, s, u)
    BY <1>1, <1>2, <2>1 DEF IsPath
  <2> QED  BY <2>2 DEF Leads
<1> QED  BY <1>1, <1>2 DEF Leads, IsPath

LEMMA LeadsByOne ==
  ASSUME NEW e \in Event, NEW s \in Stage, NEW u \in Stage, Effect(e, s, u)
  PROVE  Leads(<<e>>, s, u)
<1> DEFINE p == [i \in 0 .. 1 |-> IF i = 0 THEN s ELSE u]
<1>1. p \in [0 .. 1 -> Stage] /\ p[0] = s /\ p[1] = u
  OBVIOUS
<1>2. Len(<<e>>) = 1 /\ <<e>>[1] = e
  OBVIOUS
<1>3. \A i \in 1 .. 1 : i = 1 /\ i - 1 = 0
  OBVIOUS
<1> HIDE DEF p
<1>4. IsPath(p, <<e>>, s, u)
  BY <1>1, <1>2, <1>3 DEF IsPath
<1> QED  BY <1>4 DEF Leads

LEMMA LeadsOn ==
  ASSUME NEW q \in Seq(Event), NEW r \in Seq(Event), NEW s, NEW m, NEW u,
         Leads(q, s, m), Leads(r, m, u)
  PROVE  Leads(q \o r, s, u)
<1>1. PICK p : IsPath(p, q, s, m)
  BY DEF Leads
<1>2. PICK o : IsPath(o, r, m, u)
  BY DEF Leads
<1>3. Len(q) \in Nat /\ Len(r) \in Nat
  BY LenProperties
<1> DEFINE c == q \o r
           w == [i \in 0 .. Len(q) + Len(r) |-> IF i <= Len(q) THEN p[i] ELSE o[i - Len(q)]]
<1>4. /\ Len(c) = Len(q) + Len(r)
      /\ \A i \in 1 .. Len(q) + Len(r) : c[i] = IF i <= Len(q) THEN q[i] ELSE r[i - Len(q)]
  BY ConcatProperties, Zenon
<1> HIDE DEF c
<1>5. /\ p \in [0 .. Len(q) -> Stage] /\ p[0] = s /\ p[Len(q)] = m
      /\ \A i \in 1 .. Len(q) : Effect(q[i], p[i - 1], p[i])
  BY <1>1 DEF IsPath
<1>6. /\ o \in [0 .. Len(r) -> Stage] /\ o[0] = m /\ o[Len(r)] = u
      /\ \A i \in 1 .. Len(r) : Effect(r[i], o[i - 1], o[i])
  BY <1>2 DEF IsPath
<1>7. w \in [0 .. Len(q) + Len(r) -> Stage]
  BY <1>3, <1>5, <1>6
<1>8. \A i \in 0 .. Len(q) : w[i] = p[i]
  BY <1>3
<1>9. \A i \in 0 .. Len(r) : w[Len(q) + i] = o[i]
  <2> SUFFICES ASSUME NEW i \in 0 .. Len(r)  PROVE w[Len(q) + i] = o[i]
    OBVIOUS
  <2>1. Len(q) + i \in 0 .. Len(q) + Len(r) /\ (Len(q) + i) - Len(q) = i
    BY <1>3
  <2>2. CASE i = 0
    <3>1. Len(q) + i = Len(q) /\ Len(q) \in 0 .. Len(q)
      BY <1>3, <2>2
    <3> HIDE DEF w
    <3> QED  BY <1>5, <1>6, <1>8, <2>2, <3>1
  <2>3. CASE i # 0
    <3>1. ~(Len(q) + i <= Len(q))
      BY <1>3, <2>3
    <3> QED  BY <2>1, <3>1
  <2> QED  BY <2>2, <2>3
<1> HIDE DEF w
<1>10. w[0] = s /\ w[Len(q) + Len(r)] = u
  <2>1. 0 \in 0 .. Len(q) /\ Len(r) \in 0 .. Len(r)
    BY <1>3
  <2> QED  BY <1>5, <1>6, <1>8, <1>9, <2>1
<1>11. ASSUME NEW i \in 1 .. Len(q) + Len(r)  PROVE Effect(c[i], w[i - 1], w[i])
  <2>1. CASE i <= Len(q)
    <3>1. i \in 1 .. Len(q) /\ i \in 0 .. Len(q) /\ i - 1 \in 0 .. Len(q)
      BY <1>3, <2>1
    <3>2. c[i] = q[i] /\ w[i] = p[i] /\ w[i - 1] = p[i - 1]
      BY <1>4, <1>8, <2>1, <3>1
    <3> QED  BY <1>5, <3>1, <3>2
  <2>2. CASE ~(i <= Len(q))
    <3> DEFINE j == i - Len(q)
    <3>1. /\ j \in 1 .. Len(r) /\ j \in 0 .. Len(r) /\ j - 1 \in 0 .. Len(r)
          /\ Len(q) + j = i /\ Len(q) + (j - 1) = i - 1
      BY <1>3, <2>2
    <3>2. c[i] = r[j]
      BY <1>4, <2>2
    <3> HIDE DEF j
    <3>3. w[i] = o[j] /\ w[i - 1] = o[j - 1]
      BY <1>9, <3>1
    <3> QED  BY <1>6, <3>1, <3>2, <3>3
  <2> QED  BY <2>1, <2>2
<1>12. IsPath(w, c, s, u)
  BY <1>4, <1>7, <1>10, <1>11 DEF IsPath
<1> QED  BY <1>12 DEF Leads, c

LEMMA LeadsFirst ==
  ASSUME NEW q \in Seq(Event), q # << >>, NEW s, NEW u, Leads(q, s, u)
  PROVE  \E m \in Stage : Effect(Head(q), s, m) /\ Leads(Tail(q), m, u)
<1>1. PICK p : IsPath(p, q, s, u)
  BY DEF Leads
<1>2. Len(q) \in Nat \ {0} /\ Head(q) = q[1]
  BY EmptySeq
<1> DEFINE r == Tail(q)
           o == [i \in 0 .. Len(q) - 1 |-> p[i + 1]]
<1>3. Len(r) = Len(q) - 1 /\ \A i \in 1 .. Len(r) : r[i] = q[i + 1]
  BY HeadTailProperties, Zenon
<1> HIDE DEF r
<1>4. /\ p \in [0 .. Len(q) -> Stage] /\ p[0] = s /\ p[Len(q)] = u
      /\ \A i \in 1 .. Len(q) : Effect(q[i], p[i - 1], p[i])
  BY <1>1 DEF IsPath
<1>5. Effect(q[1], s, p[1]) /\ p[1] \in Stage
  <2>1. 1 \in 1 .. Len(q) /\ 1 \in 0 .. Len(q) /\ 1 - 1 = 0
    BY <1>2
  <2> QED  BY <1>4, <2>1
<1>6. o \in [0 .. Len(r) -> Stage]
  BY <1>2, <1>3, <1>4
<1>7. \A i \in 0 .. Len(r) : o[i] = p[i + 1]
  BY <1>2, <1>3
<1> HIDE DEF o
<1>8. o[0] = p[1] /\ o[Len(r)] = u
  <2>1. 0 \in 0 .. Len(r) /\ Len(r) \in 0 .. Len(r) /\ 0 + 1 = 1 /\ Len(r) + 1 = Len(q)
    BY <1>2, <1>3
  <2> QED  BY <1>4, <1>7, <2>1
<1>9. ASSUME NEW i \in 1 .. Len(r)  PROVE Effect(r[i], o[i - 1], o[i])
  <2>1. /\ i + 1 \in 1 .. Len(q) /\ i \in 0 .. Len(r) /\ i - 1 \in 0 .. Len(r)
        /\ (i + 1) - 1 = i /\ (i - 1) + 1 = i
    BY <1>2, <1>3
  <2>2. r[i] = q[i + 1] /\ o[i] = p[i + 1] /\ o[i - 1] = p[i]
    BY <1>3, <1>7, <2>1
  <2>3. Effect(q[i + 1], p[(i + 1) - 1], p[i + 1])
    BY <1>4, <2>1
  <2> QED  BY <2>1, <2>2, <2>3
<1>10. IsPath(o, r, p[1], u)
  BY <1>6, <1>8, <1>9 DEF IsPath
<1>11. Leads(r, p[1], u)
  BY <1>10 DEF Leads
<1> QED  BY <1>2, <1>5, <1>11 DEF r

-----------------------------------------------------------------------------
(* What the connection has composed is the text of the region.             *)
EditorInv == composingText = IF Composing THEN Stretch(text, region.start, region.end) ELSE << >>

LEMMA BetweenStage ==
  ASSUME NEW s \in Seq(Chars), NEW a \in Nat, NEW b \in Nat, a <= Len(s), b <= Len(s),
         NEW c \in Seq(Chars)
  PROVE  Between(s, a, b, c) \in Stage
<1>1. Len(s) \in Nat /\ 0 <= a /\ 0 \in Nat
  BY LenProperties
<1>2. Stretch(s, 0, a) \in Seq(Chars) /\ Stretch(s, b, Len(s)) \in Seq(Chars)
  BY <1>1, StretchIs
<1> QED  BY <1>2 DEF Between, Stage

LEMMA EditorStageTyped ==
  ASSUME EditorTyped
  PROVE  EditorStage \in Stage
<1>1. /\ Target \in [start : Nat, end : Nat] /\ Target.start <= Target.end /\ Target.end <= Len(text)
      /\ text \in Seq(Chars) /\ composingText \in Seq(Chars) /\ Len(text) \in Nat
  BY TargetTyped, TextsAre, LenProperties DEF EditorTyped
<1>2. Target.start \in Nat /\ Target.end \in Nat /\ Target.start <= Len(text)
  BY <1>1
<1> QED  BY <1>1, <1>2, BetweenStage DEF EditorStage

(* The events of arrows, of the deletion of a stretch, and of a text that  *)
(* takes the place of one.                                                 *)
LEMMA LeftLeads ==
  ASSUME NEW s \in Texts, NEW a \in Nat, NEW b \in Nat, a <= b, b <= Len(s),
         ~IsWide(Stretch(s, a, b))
  PROVE  Leads(<<Keys("Left", Units(Stretch(s, a, b)))>>, Between(s, b, b, << >>),
               Between(s, a, a, << >>))
<1> DEFINE y == Stretch(s, a, b)
           e == Keys("Left", Units(y))
           u == Between(s, b, b, << >>)
           v == Between(s, a, a, << >>)
<1>1. s \in Seq(Chars) /\ Len(s) \in Nat /\ 0 <= a /\ 0 \in Nat /\ a <= Len(s) /\ Len(s) <= Len(s)
  BY TextsAre, LenProperties
<1>2. u \in Stage /\ v \in Stage
  BY <1>1, EmptyText, BetweenStage
<1>3. y \in Seq(Chars) /\ Len(y) \in Nat /\ Units(y) = Len(y)
  BY <1>1, StretchIs, NarrowCounts, LenProperties
<1>4. Stretch(s, 0, b) = Stretch(s, 0, a) \o y /\ Stretch(s, a, Len(s)) = y \o Stretch(s, b, Len(s))
  BY <1>1, StretchJoin
<1>5. u.left = v.left \o y /\ v.right = y \o u.right /\ u.comp = << >> /\ v.comp = << >>
  BY <1>4 DEF Between
<1> HIDE DEF y
<1>6. e.type = "Left" /\ e.before = Len(y)
  BY <1>3 DEF Keys, Ime
<1>7. e \in Event
  BY <1>3, EventTyped, EmptyText DEF Keys
<1> HIDE DEF u, v, e
<1>8. Effect(e, u, v)
  BY <1>3, <1>5, <1>6 DEF Effect
<1>9. Leads(<<e>>, u, v)
  BY <1>2, <1>7, <1>8, LeadsByOne
<1> QED  BY <1>9 DEF e, u, v, y

LEMMA RightLeads ==
  ASSUME NEW s \in Texts, NEW a \in Nat, NEW b \in Nat, a <= b, b <= Len(s),
         ~IsWide(Stretch(s, a, b))
  PROVE  Leads(<<Keys("Right", Units(Stretch(s, a, b)))>>, Between(s, a, a, << >>),
               Between(s, b, b, << >>))
<1> DEFINE y == Stretch(s, a, b)
           e == Keys("Right", Units(y))
           u == Between(s, a, a, << >>)
           v == Between(s, b, b, << >>)
<1>1. s \in Seq(Chars) /\ Len(s) \in Nat /\ 0 <= a /\ 0 \in Nat /\ a <= Len(s) /\ Len(s) <= Len(s)
  BY TextsAre, LenProperties
<1>2. u \in Stage /\ v \in Stage
  BY <1>1, EmptyText, BetweenStage
<1>3. y \in Seq(Chars) /\ Len(y) \in Nat /\ Units(y) = Len(y)
  BY <1>1, StretchIs, NarrowCounts, LenProperties
<1>4. Stretch(s, 0, b) = Stretch(s, 0, a) \o y /\ Stretch(s, a, Len(s)) = y \o Stretch(s, b, Len(s))
  BY <1>1, StretchJoin
<1>5. v.left = u.left \o y /\ u.right = y \o v.right /\ u.comp = << >> /\ v.comp = << >>
  BY <1>4 DEF Between
<1> HIDE DEF y
<1>6. e.type = "Right" /\ e.before = Len(y)
  BY <1>3 DEF Keys, Ime
<1>7. e \in Event
  BY <1>3, EventTyped, EmptyText DEF Keys
<1> HIDE DEF u, v, e
<1>8. Effect(e, u, v)
  BY <1>3, <1>5, <1>6 DEF Effect
<1>9. Leads(<<e>>, u, v)
  BY <1>2, <1>7, <1>8, LeadsByOne
<1> QED  BY <1>9 DEF e, u, v, y

LEMMA BackspaceLeads ==
  ASSUME NEW s \in Texts, NEW a \in Nat, NEW b \in Nat, a <= b, b <= Len(s),
         ~IsWide(Stretch(s, a, b))
  PROVE  Leads(<<Keys("Backspace", Units(Stretch(s, a, b)))>>, Between(s, b, b, << >>),
               Between(s, a, b, << >>))
<1> DEFINE y == Stretch(s, a, b)
           e == Keys("Backspace", Units(y))
           u == Between(s, b, b, << >>)
           v == Between(s, a, b, << >>)
<1>1. s \in Seq(Chars) /\ Len(s) \in Nat /\ 0 <= a /\ 0 \in Nat /\ a <= Len(s) /\ Len(s) <= Len(s)
  BY TextsAre, LenProperties
<1>2. u \in Stage /\ v \in Stage
  BY <1>1, EmptyText, BetweenStage
<1>3. y \in Seq(Chars) /\ Len(y) \in Nat /\ Units(y) = Len(y)
  BY <1>1, StretchIs, NarrowCounts, LenProperties
<1>4. Stretch(s, 0, b) = Stretch(s, 0, a) \o y
  BY <1>1, StretchJoin
<1>5. u.left = v.left \o y /\ v.right = u.right /\ u.comp = << >> /\ v.comp = << >>
  BY <1>4 DEF Between
<1> HIDE DEF y
<1>6. e.type = "Backspace" /\ e.before = Len(y)
  BY <1>3 DEF Keys, Ime
<1>7. e \in Event
  BY <1>3, EventTyped, EmptyText DEF Keys
<1> HIDE DEF u, v, e
<1>8. Effect(e, u, v)
  BY <1>3, <1>5, <1>6 DEF Effect
<1>9. Leads(<<e>>, u, v)
  BY <1>2, <1>7, <1>8, LeadsByOne
<1> QED  BY <1>9 DEF e, u, v, y

LEMMA RecomposeLeads ==
  ASSUME NEW s \in Texts, NEW a \in Nat, NEW b \in Nat, a <= b, b <= Len(s)
  PROVE  Leads(<<Ime("ImeRecompose", Stretch(s, a, b), 0, 0)>>, Between(s, b, b, << >>),
               Between(s, a, b, Stretch(s, a, b)))
<1> DEFINE y == Stretch(s, a, b)
           e == Ime("ImeRecompose", y, 0, 0)
           u == Between(s, b, b, << >>)
           v == Between(s, a, b, y)
<1>1. s \in Seq(Chars) /\ Len(s) \in Nat /\ 0 <= a /\ 0 \in Nat /\ a <= Len(s) /\ Len(s) <= Len(s)
  BY TextsAre, LenProperties
<1>2. y \in Texts /\ y \in Seq(Chars)
  BY <1>1, StretchText, TextsAre
<1>3. Stretch(s, 0, b) = Stretch(s, 0, a) \o y
  BY <1>1, StretchJoin
<1> HIDE DEF y
<1>4. u \in Stage /\ v \in Stage
  BY <1>1, <1>2, EmptyText, BetweenStage
<1>5. u.left = v.left \o y /\ v.right = u.right /\ u.comp = << >> /\ v.comp = y
  BY <1>3 DEF Between
<1>6. e.type = "ImeRecompose" /\ e.text = y
  BY DEF Ime
<1>7. e \in Event
  BY <1>2, EventTyped
<1> HIDE DEF u, v, e
<1>8. Effect(e, u, v)
  BY <1>5, <1>6 DEF Effect
<1>9. Leads(<<e>>, u, v)
  BY <1>4, <1>7, <1>8, LeadsByOne
<1> QED  BY <1>9 DEF e, u, v, y

LEMMA CommitLeads ==
  ASSUME NEW s \in Seq(Chars), NEW a \in Nat, NEW b \in Nat, a <= b, b <= Len(s),
         NEW c \in Seq(Chars), NEW t \in Texts, NEW w, Replaced(s, a, b, t, w)
  PROVE  Leads(<<Ime("ImeCommit", t, 0, 0)>>, Between(s, a, b, c),
               Between(w, a + Len(t), a + Len(t), << >>))
<1> DEFINE n == a + Len(t)
           e == Ime("ImeCommit", t, 0, 0)
           u == Between(s, a, b, c)
           v == Between(w, n, n, << >>)
<1>1. Len(s) \in Nat /\ a <= Len(s) /\ Len(t) \in Nat
  BY TextsAre, LenProperties
<1>2. /\ w \in Seq(Chars) /\ Len(w) = n + (Len(s) - b)
      /\ Stretch(w, 0, a) = Stretch(s, 0, a) /\ Stretch(w, a, n) = t
      /\ Stretch(w, n, Len(w)) = Stretch(s, b, Len(s))
  BY DEF Replaced
<1>3. n \in Nat /\ a <= n /\ n <= Len(w) /\ 0 <= a /\ 0 \in Nat
  BY <1>1, <1>2
<1> HIDE DEF n
<1>4. Stretch(w, 0, n) = Stretch(w, 0, a) \o Stretch(w, a, n)
  BY <1>2, <1>3, StretchJoin
<1>5. v.left = u.left \o t /\ v.right = u.right /\ v.comp = << >>
  BY <1>2, <1>4 DEF Between
<1>6. u \in Stage /\ v \in Stage
  BY <1>1, <1>2, <1>3, EmptyText, BetweenStage
<1>7. e.type = "ImeCommit" /\ e.text = t
  BY DEF Ime
<1>8. e \in Event
  BY EventTyped
<1> HIDE DEF u, v, e
<1>9. Effect(e, u, v)
  BY <1>5, <1>7 DEF Effect
<1>10. Leads(<<e>>, u, v)
  BY <1>6, <1>8, <1>9, LeadsByOne
<1> QED  BY <1>10 DEF e, u, v, n

LEMMA ComposeLeads ==
  ASSUME NEW s \in Seq(Chars), NEW a \in Nat, NEW b \in Nat, a <= b, b <= Len(s),
         NEW c \in Seq(Chars), NEW t \in Texts, NEW w, Replaced(s, a, b, t, w)
  PROVE  Leads(<<Ime("ImeComposing", t, 0, 0)>>, Between(s, a, b, c),
               Between(w, a, a + Len(t), t))
<1> DEFINE n == a + Len(t)
           e == Ime("ImeComposing", t, 0, 0)
           u == Between(s, a, b, c)
           v == Between(w, a, n, t)
<1>1. Len(s) \in Nat /\ a <= Len(s) /\ Len(t) \in Nat /\ t \in Seq(Chars)
  BY TextsAre, LenProperties
<1>2. /\ w \in Seq(Chars) /\ Len(w) = n + (Len(s) - b)
      /\ Stretch(w, 0, a) = Stretch(s, 0, a)
      /\ Stretch(w, n, Len(w)) = Stretch(s, b, Len(s))
  BY DEF Replaced
<1>3. n \in Nat /\ a <= n /\ n <= Len(w) /\ a <= Len(w)
  BY <1>1, <1>2
<1> HIDE DEF n
<1>5. v.left = u.left /\ v.right = u.right /\ v.comp = t
  BY <1>2 DEF Between
<1>6. u \in Stage /\ v \in Stage
  BY <1>1, <1>2, <1>3, BetweenStage
<1>7. e.type = "ImeComposing" /\ e.text = t
  BY DEF Ime
<1>8. e \in Event
  BY EventTyped
<1> HIDE DEF u, v, e
<1>9. Effect(e, u, v)
  BY <1>5, <1>7 DEF Effect
<1>10. Leads(<<e>>, u, v)
  BY <1>6, <1>8, <1>9, LeadsByOne
<1> QED  BY <1>10 DEF e, u, v, n

LEMMA ArrowsLead ==
  ASSUME EditorTyped, NEW from \in 0 .. Len(text), NEW to \in 0 .. Len(text), ~OverWide(from, to)
  PROVE  Leads(Arrows(from, to), Between(text, from, from, << >>), Between(text, to, to, << >>))
<1>1. text \in Texts /\ text \in Seq(Chars) /\ Len(text) \in Nat /\ from \in Nat /\ to \in Nat
      /\ from <= Len(text) /\ to <= Len(text)
  BY TextsAre, LenProperties DEF EditorTyped
<1>2. CASE from > to
  <2>1. Least(from, to) = to /\ from + to - to = from /\ to <= from
    BY <1>1, <1>2 DEF Least
  <2>2. ~IsWide(Stretch(text, to, from))
    BY <2>1 DEF OverWide
  <2> QED  BY <1>1, <1>2, <2>1, <2>2, LeftLeads DEF Arrows
<1>3. CASE from < to
  <2>1. Least(from, to) = from /\ from + to - from = to /\ from <= to /\ ~(from > to)
    BY <1>1, <1>3 DEF Least
  <2>2. ~IsWide(Stretch(text, from, to))
    BY <2>1 DEF OverWide
  <2> QED  BY <1>1, <1>3, <2>1, <2>2, RightLeads DEF Arrows
<1>4. CASE from = to
  <2>1. Between(text, from, from, << >>) \in Stage
    BY <1>1, EmptyText, BetweenStage
  <2>2. Arrows(from, to) = << >>
    BY <1>1, <1>4 DEF Arrows
  <2> QED  BY <1>4, <2>1, <2>2, LeadsNowhere
<1> QED  BY <1>1, <1>2, <1>3, <1>4

-----------------------------------------------------------------------------
(* The field f is at the stage s, with c tracked of its composition: in a  *)
(* session the client shows it as its preedit, unless the session is new;  *)
(* otherwise keys have typed it into the text.                             *)
Rep(f, c, act, s) ==
  /\ c \in {<< >>, s.comp}
  /\ act => \E p \in {<< >>, c} : At(f, s.left, s.right, p)
  /\ ~act => At(f, s.left \o c, s.right, << >>)

(* The events on their way lead from the field's stage to the Editable's.  *)
Agree == \E s \in Stage : Rep(field, composing_text, active, s) /\ Leads(events, s, EditorStage)

AgreeInv == ~astray => EditorInv /\ Agree

LEMMA InitAgreeInv == Init => AgreeInv
<1> SUFFICES ASSUME Init PROVE AgreeInv
  OBVIOUS
<1>1. /\ text = << >> /\ cursor = 0 /\ region = NoRegion /\ composingText = << >> /\ events = << >>
      /\ active = FALSE /\ composing_text = << >>
      /\ field = [text |-> << >>, caret |-> 0, preedit |-> << >>]
  BY DEF Init
<1>2. EditorInv /\ Target = [start |-> 0, end |-> 0]
  BY <1>1 DEF EditorInv, Composing, Target
<1> DEFINE s == [left |-> << >>, right |-> << >>, comp |-> << >>]
<1>3. << >> \in Seq(Chars) /\ Len(<< >>) = 0
  BY EmptyText
<1>4. << >> \o << >> = << >>
  BY <1>3, ConcatEmptySeq, Zenon
<1>5. s \in Stage
  BY <1>3 DEF Stage
<1>6. Stretch(<< >>, 0, 0) = << >>
  BY StretchEmpty
<1>7. EditorStage = s
  BY <1>1, <1>2, <1>3, <1>6 DEF EditorStage, Between
<1>8. Rep(field, composing_text, active, s)
  <2>1. At(field, << >> \o << >>, << >>, << >>)
    BY <1>1, <1>3, <1>4 DEF At
  <2> QED  BY <1>1, <2>1 DEF Rep
<1> HIDE DEF s
<1>9. Leads(events, s, EditorStage)
  BY <1>1, <1>5, <1>7, LeadsNowhere
<1> QED  BY <1>2, <1>5, <1>8, <1>9 DEF AgreeInv, Agree

(* The events of a call lead on to the new state of the editor. *)
LEMMA CallAgrees ==
  ASSUME TypeInv, AgreeInv, ~astray, NEW sent \in Seq(Event), events' = events \o sent,
         UNCHANGED <<field, composing_text, active>>,
         EditorInv', Leads(sent, EditorStage, EditorStage')
  PROVE  AgreeInv'
<1>1. PICK s \in Stage : Rep(field, composing_text, active, s) /\ Leads(events, s, EditorStage)
  BY DEF AgreeInv, Agree
<1>2. PICK m : m = EditorStage
  OBVIOUS
<1>3. PICK u : u = EditorStage'
  OBVIOUS
<1>4. events \in Seq(Event)
  BY DEF TypeInv
<1>5. Leads(events, s, m) /\ Leads(sent, m, u)
  BY <1>1, <1>2, <1>3
<1>6. Leads(events \o sent, s, u)
  BY <1>4, <1>5, LeadsOn
<1>7. Leads(events', s, EditorStage')
  BY <1>3, <1>6
<1>8. Rep(field', composing_text', active', s)
  BY <1>1
<1>9. Agree'
  BY <1>7, <1>8 DEF Agree
<1> QED  BY <1>9 DEF AgreeInv

(* The editor without a composition. *)
LEMMA AtCursor ==
  ASSUME EditorInv, ~Composing
  PROVE  EditorStage = Between(text, cursor, cursor, << >>) /\ composingText = << >>
BY DEF EditorInv, EditorStage, Target

LEMMA AtCursorNext ==
  ASSUME region' = NoRegion, composingText' = << >>
  PROVE  /\ EditorStage' = Between(text', cursor', cursor', << >>)
         /\ EditorInv'
BY DEF EditorInv, EditorStage, Target, Composing, Between

LEMMA SetComposingLeads ==
  ASSUME TypeInv, NEW t \in Texts, setComposingText(t)
  PROVE  EditorInv' /\ Leads(<<Ime("ImeComposing", t, 0, 0)>>, EditorStage, EditorStage')
<1>0. EditorTyped
  BY DEF TypeInv
<1>1. PICK r \in [start : Nat, end : Nat] : r = Target /\ r.start <= r.end /\ r.end <= Len(text)
  BY <1>0, TargetTyped
<1>2. /\ Replace(r, t) /\ composingText' = t
      /\ region' = IF t = << >> THEN NoRegion ELSE [start |-> r.start, end |-> r.start + Len(t)]
  BY <1>1 DEF setComposingText
<1>3. /\ Replaced(text, r.start, r.end, t, text')
      /\ cursor' = r.start + Len(t) /\ Len(t) \in Nat
  BY <1>0, <1>1, <1>2, ReplaceIs
<1>4. /\ r.start \in Nat /\ r.end \in Nat /\ text \in Seq(Chars) /\ composingText \in Seq(Chars)
      /\ t \in Seq(Chars)
  BY <1>0, TextsAre DEF EditorTyped
<1>5. EditorStage = Between(text, r.start, r.end, composingText)
  BY <1>1 DEF EditorStage
<1>6. Leads(<<Ime("ImeComposing", t, 0, 0)>>, Between(text, r.start, r.end, composingText),
            Between(text', r.start, r.start + Len(t), t))
  BY <1>1, <1>3, <1>4, ComposeLeads
<1>7. CASE t = << >>
  <2>1. region' = NoRegion /\ composingText' = << >> /\ Len(t) = 0 /\ r.start + Len(t) = r.start
    BY <1>2, <1>4, <1>7, EmptyText
  <2>2. EditorInv' /\ EditorStage' = Between(text', r.start, r.start + Len(t), t)
    BY <1>3, <1>7, <2>1, AtCursorNext
  <2> QED  BY <1>5, <1>6, <2>2
<1>8. CASE t # << >>
  <2>1. Len(t) # 0
    BY <1>4, <1>8, EmptySeq
  <2>2. region' = [start |-> r.start, end |-> r.start + Len(t)] /\ r.start + Len(t) # 0
    BY <1>2, <1>3, <1>4, <1>8, <2>1
  <2>3. Composing'
    BY <2>2 DEF Composing, NoRegion
  <2>4. Stretch(text', r.start, r.start + Len(t)) = t
    BY <1>3 DEF Replaced
  <2>5. EditorInv'
    BY <1>2, <2>2, <2>3, <2>4 DEF EditorInv
  <2>6. EditorStage' = Between(text', r.start, r.start + Len(t), t)
    BY <1>2, <2>2, <2>3 DEF EditorStage, Target, Between
  <2> QED  BY <1>5, <1>6, <2>5, <2>6
<1> QED  BY <1>7, <1>8

LEMMA CommitTextLeads ==
  ASSUME TypeInv, NEW t \in Texts, commitText(t)
  PROVE  EditorInv' /\ Leads(<<Ime("ImeCommit", t, 0, 0)>>, EditorStage, EditorStage')
<1>0. EditorTyped
  BY DEF TypeInv
<1>1. PICK r \in [start : Nat, end : Nat] : r = Target /\ r.start <= r.end /\ r.end <= Len(text)
  BY <1>0, TargetTyped
<1>2. Replace(r, t) /\ composingText' = << >> /\ region' = NoRegion
  BY <1>1 DEF commitText
<1>3. Replaced(text, r.start, r.end, t, text') /\ cursor' = r.start + Len(t)
  BY <1>0, <1>1, <1>2, ReplaceIs
<1>4. /\ r.start \in Nat /\ r.end \in Nat /\ text \in Seq(Chars) /\ composingText \in Seq(Chars)
  BY <1>0, TextsAre DEF EditorTyped
<1>5. EditorStage = Between(text, r.start, r.end, composingText)
  BY <1>1 DEF EditorStage
<1>6. Leads(<<Ime("ImeCommit", t, 0, 0)>>, Between(text, r.start, r.end, composingText),
            Between(text', r.start + Len(t), r.start + Len(t), << >>))
  BY <1>1, <1>3, <1>4, CommitLeads
<1>7. EditorInv' /\ EditorStage' = Between(text', r.start + Len(t), r.start + Len(t), << >>)
  BY <1>2, <1>3, AtCursorNext
<1> QED  BY <1>5, <1>6, <1>7

(* A composition is finished at its end: what was composed is before the cursor. *)
LEMMA FinishLeads ==
  ASSUME EditorTyped, EditorInv, ~CaretLeftBehind
  PROVE  Leads(Finishing, EditorStage, Between(text, cursor, cursor, << >>))
<1>1. /\ text \in Texts /\ text \in Seq(Chars) /\ Len(text) \in Nat /\ cursor \in Nat
      /\ cursor <= Len(text) /\ composingText \in Texts /\ composingText \in Seq(Chars)
  BY TextsAre, LenProperties DEF EditorTyped
<1>2. PICK r \in [start : Nat, end : Nat] : r = Target /\ r.start <= r.end /\ r.end <= Len(text)
  BY TargetTyped
<1>3. r.end = cursor /\ r.start \in Nat /\ r.end \in Nat
  BY <1>1, <1>2 DEF Target, CaretLeftBehind
<1> DEFINE a == r.start
           b == r.end
<1>3a. a \in Nat /\ b \in Nat /\ a <= b /\ b <= Len(text)
  BY <1>2, <1>3
<1>4. composingText = Stretch(text, r.start, r.end)
  <2>1. CASE Composing
    BY <1>2, <2>1 DEF EditorInv, Target
  <2>2. CASE ~Composing
    BY <1>1, <1>2, <1>3, <2>2, StretchEmpty DEF EditorInv, Target
  <2> QED  BY <2>1, <2>2
<1>5. EditorStage = Between(text, r.start, r.end, composingText) /\ EditorStage \in Stage
  BY <1>2, EditorStageTyped DEF EditorStage
<1> HIDE DEF a, b
<1> DEFINE v == Between(text, cursor, cursor, << >>)
<1>6. v \in Stage
  BY <1>1, EmptyText, BetweenStage
<1>7. CASE composingText = << >>
  <2>1. Len(Stretch(text, a, b)) = b - a
    BY <1>1, <1>3a, StretchIs
  <2>2. r.end = r.start
    BY <1>3, <1>4, <1>7, <2>1, EmptyText DEF a, b
  <2>3. EditorStage = v
    BY <1>3, <1>5, <1>7, <2>2
  <2> QED  BY <1>5, <1>6, <1>7, <2>3, LeadsNowhere DEF Finishing
<1>8. CASE composingText # << >>
  <2> DEFINE e == Ime("ImeCommit", composingText, 0, 0)
  <2>1. Stretch(text, 0, b) = Stretch(text, 0, a) \o Stretch(text, a, b)
    <3>1. 0 \in Nat /\ 0 <= a
      BY <1>3a
    <3> QED  BY <1>1, <1>3a, <3>1, StretchJoin
  <2>2. /\ v.left = EditorStage.left \o composingText /\ v.right = EditorStage.right
        /\ v.comp = << >>
    BY <1>3, <1>4, <1>5, <2>1 DEF Between, a, b
  <2>3. e \in Event /\ e.type = "ImeCommit" /\ e.text = composingText
    BY <1>1, EventTyped DEF Ime
  <2>4. PICK u : u = EditorStage
    OBVIOUS
  <2> HIDE DEF v, e
  <2>5. Effect(e, u, v)
    BY <2>2, <2>3, <2>4 DEF Effect
  <2>6. Leads(<<e>>, u, v)
    BY <1>5, <1>6, <2>3, <2>4, <2>5, LeadsByOne
  <2> QED  BY <1>8, <2>4, <2>6 DEF Finishing, e, v
<1> QED  BY <1>7, <1>8

LEMMA SetRegionLeads ==
  ASSUME TypeInv, EditorInv, NEW start \in Positions, NEW end \in Positions, start <= end,
         ~Composing, ~OverWide(cursor, end), ~(start = end /\ cursor # end),
         UNCHANGED <<text, cursor>>,
         composingText' = Stretch(text, start, end),
         region' = IF start < end THEN [start |-> start, end |-> end] ELSE NoRegion
  PROVE  /\ EditorInv'
         /\ Leads(Arrows(cursor, end) \o <<Ime("ImeRecompose", composingText', 0, 0)>>,
                  EditorStage, EditorStage')
<1>1. /\ EditorTyped /\ text \in Texts /\ Len(text) \in Nat /\ cursor \in 0 .. Len(text)
      /\ start \in Nat /\ end \in Nat /\ end \in 0 .. Len(text) /\ end <= Len(text)
  BY TextsAre, LenProperties DEF TypeInv, EditorTyped, Positions
<1> DEFINE y == Stretch(text, start, end)
           arrows == Arrows(cursor, end)
           last == <<Ime("ImeRecompose", y, 0, 0)>>
           u == Between(text, cursor, cursor, << >>)
           m == Between(text, end, end, << >>)
           v == Between(text, start, end, y)
<1>2. EditorStage = u
  BY AtCursor
<1>3. Leads(arrows, u, m)
  BY <1>1, ArrowsLead
<1>4. Leads(last, m, v)
  BY <1>1, RecomposeLeads
<1>5. arrows \in Seq(Event) /\ last \in Seq(Event)
  <2>1. y \in Texts
    BY <1>1, StretchText
  <2> QED  BY <1>1, <2>1, ArrowsTyped, EventTyped
<1>6. EditorInv' /\ EditorStage' = v
  <2>1. CASE start < end
    <3>1. region' = [start |-> start, end |-> end] /\ end # 0
      BY <1>1, <2>1
    <3>2. Composing'
      BY <3>1 DEF Composing, NoRegion
    <3>3. EditorInv'
      BY <3>1, <3>2 DEF EditorInv
    <3> QED  BY <3>1, <3>2, <3>3 DEF EditorStage, Target
  <2>2. CASE start = end
    <3>1. region' = NoRegion /\ composingText' = << >> /\ y = << >> /\ cursor = end
      BY <1>1, <2>2, StretchEmpty
    <3> QED  BY <2>2, <3>1, AtCursorNext
  <2> QED  BY <1>1, <2>1, <2>2
<1> HIDE DEF arrows, last, u, m, v
<1>7. Leads(arrows \o last, u, v)
  BY <1>3, <1>4, <1>5, LeadsOn
<1>8. arrows \o last = Arrows(cursor, end) \o <<Ime("ImeRecompose", composingText', 0, 0)>>
  BY DEF arrows, last
<1> QED  BY <1>2, <1>6, <1>7, <1>8

LEMMA TwoEvents == \A d, e : <<d>> \o <<e>> = <<d, e>>
<1> SUFFICES ASSUME NEW d, NEW e  PROVE <<d>> \o <<e>> = <<d, e>>
  OBVIOUS
<1> DEFINE S == {d, e}
           x == <<d>>
           y == <<e>>
           z == <<d, e>>
<1>1. /\ x \in Seq(S) /\ y \in Seq(S) /\ z \in Seq(S)
      /\ Len(x) = 1 /\ x[1] = d /\ Len(y) = 1 /\ y[1] = e
      /\ Len(z) = 2 /\ z[1] = d /\ z[2] = e
  OBVIOUS
<1> HIDE DEF S, x, y, z
<1>2. /\ x \o y \in Seq(S) /\ Len(x \o y) = Len(x) + Len(y)
      /\ \A i \in 1 .. Len(x) + Len(y) : (x \o y)[i] = IF i <= Len(x) THEN x[i] ELSE y[i - Len(x)]
  BY <1>1, ConcatProperties
<1> DEFINE c == x \o y
<1>3. c \in Seq(S) /\ Len(c) = 2 /\ c[1] = d /\ c[2] = e
  BY <1>1, <1>2
<1> HIDE DEF c
<1>4. \A i \in 1 .. Len(c) : c[i] = z[i]
  BY <1>1, <1>3
<1>5. c = z
  BY <1>1, <1>3, <1>4, SeqEqual
<1> QED  BY <1>5 DEF c, x, y, z

LEMMA ReplaceLeads ==
  ASSUME TypeInv, EditorInv, NEW start \in Positions, NEW end \in Positions, NEW t \in Texts,
         start <= end, ~Composing, ~OverWide(cursor, end), ~OverWide(start, end),
         Replace([start |-> start, end |-> end], t),
         region' = NoRegion, composingText' = composingText
  PROVE  /\ EditorInv'
         /\ Leads(Arrows(cursor, end)
                    \o <<Keys("Backspace", Units(Stretch(text, start, end))),
                         Ime("ImeCommit", t, 0, 0)>>,
                  EditorStage, EditorStage')
<1>1. /\ EditorTyped /\ text \in Texts /\ text \in Seq(Chars) /\ Len(text) \in Nat
      /\ cursor \in 0 .. Len(text)
      /\ start \in Nat /\ end \in Nat /\ end \in 0 .. Len(text) /\ end <= Len(text)
  BY TextsAre, LenProperties DEF TypeInv, EditorTyped, Positions
<1> DEFINE n == Units(Stretch(text, start, end))
           back == <<Keys("Backspace", n)>>
           typed == <<Ime("ImeCommit", t, 0, 0)>>
           arrows == Arrows(cursor, end)
           u == Between(text, cursor, cursor, << >>)
           l == Between(text, end, end, << >>)
           m == Between(text, start, end, << >>)
           v == Between(text', start + Len(t), start + Len(t), << >>)
<1>2. EditorStage = u /\ composingText = << >>
  BY AtCursor
<1>3. Leads(arrows, u, l)
  BY <1>1, ArrowsLead
<1>4. Leads(back, l, m)
  <2>1. Least(start, end) = start /\ start + end - start = end
    BY <1>1 DEF Least
  <2>2. ~IsWide(Stretch(text, start, end))
    BY <2>1 DEF OverWide
  <2> QED  BY <1>1, <2>2, BackspaceLeads
<1>5. Replaced(text, start, end, t, text') /\ cursor' = start + Len(t)
  <2> DEFINE r == [start |-> start, end |-> end]
  <2>1. /\ r \in [start : Nat, end : Nat] /\ r.start = start /\ r.end = end
        /\ r.start <= r.end /\ r.end <= Len(text) /\ Replace(r, t)
    BY <1>1
  <2> HIDE DEF r
  <2>2. Replaced(text, r.start, r.end, t, text') /\ cursor' = r.start + Len(t)
    BY <1>1, <2>1, ReplaceIs
  <2> QED  BY <2>1, <2>2
<1>6. Leads(typed, m, v)
  BY <1>1, <1>5, EmptyText, CommitLeads
<1>7. EditorInv' /\ EditorStage' = v
  BY <1>2, <1>5, AtCursorNext
<1>8. arrows \in Seq(Event) /\ back \in Seq(Event) /\ typed \in Seq(Event)
  <2>1. n \in Nat
    BY <1>1, UnitsOfStretch
  <2> HIDE DEF n
  <2>2. back \in Seq(Event)
    BY <2>1, EventTyped, EmptyText DEF Keys
  <2> QED  BY <1>1, <2>2, ArrowsTyped, EventTyped
<1>9. back \o typed = <<Keys("Backspace", n), Ime("ImeCommit", t, 0, 0)>>
  BY TwoEvents
<1> HIDE DEF arrows, back, typed, u, l, m, v, n
<1>10. back \o typed \in Seq(Event) /\ Leads(back \o typed, l, v)
  BY <1>4, <1>6, <1>8, LeadsOn, ConcatProperties
<1>11. Leads(arrows \o (back \o typed), u, v)
  <2> DEFINE q == back \o typed
  <2>1. q \in Seq(Event) /\ Leads(q, l, v)
    BY <1>10
  <2> HIDE DEF q
  <2>2. Leads(arrows \o q, u, v)
    BY <1>3, <1>8, <2>1, LeadsOn
  <2> QED  BY <2>2 DEF q
<1> QED  BY <1>2, <1>7, <1>9, <1>11 DEF arrows, n

LEMMA StretchOfFirst ==
  ASSUME NEW s \in Seq(Chars), NEW a \in Nat, NEW c \in Nat, a <= c, c <= Len(s)
  PROVE  Stretch(Stretch(s, 0, c), 0, a) = Stretch(s, 0, a)
<1> DEFINE l == Stretch(s, 0, a)
           y == Stretch(s, a, c)
           r == << >>
<1>1. 0 \in Nat /\ 0 <= a /\ a <= Len(s) /\ a - 0 = a
  BY LenProperties
<1>2. l \in Seq(Chars) /\ Len(l) = a /\ y \in Seq(Chars) /\ Stretch(s, 0, c) = l \o y
  BY <1>1, StretchIs, StretchJoin
<1>3. r \in Seq(Chars)
  BY EmptyText
<1>4. y \o r = y
  BY <1>2, ConcatEmptySeq
<1> HIDE DEF l, y, r
<1>5. Stretch(l \o (y \o r), 0, Len(l)) = l
  BY <1>2, <1>3, Pieces
<1> QED  BY <1>2, <1>4, <1>5 DEF l

LEMMA DeleteLeads ==
  ASSUME TypeInv, EditorInv, NEW before \in Nat, NEW after \in Nat,
         deleteSurroundingText(before, after), ~Composing, ~IsWide(DeletedAfter(after))
  PROVE  EditorInv' /\ Leads(<<DeleteEvent(before, after)>>, EditorStage, EditorStage')
<1> DEFINE x == DeletedBefore(before)
           y == DeletedAfter(after)
           m == Least(cursor + after, Len(text))
           b == Least(before, cursor)
           k == cursor - b
           w == Splice(text, cursor, m, << >>)
           e == DeleteEvent(before, after)
           u == Between(text, cursor, cursor, << >>)
           v == Between(text', k, k, << >>)
<1>1. /\ text \in Texts /\ text \in Seq(Chars) /\ Len(text) \in Nat
      /\ cursor \in Nat /\ cursor <= Len(text) /\ << >> \in Seq(Chars) /\ Len(<< >>) = 0
  BY TextsAre, LenProperties, EmptySeq DEF TypeInv, EditorTyped
<1>2. DeleteFrom = cursor /\ DeleteTo = cursor
  BY DEF DeleteFrom, DeleteTo
<1>3. m \in Nat /\ cursor <= m /\ m <= Len(text) /\ (m = cursor + after \/ m = Len(text))
      /\ m <= cursor + after
  BY <1>1 DEF Least
<1>4. b \in Nat /\ b <= cursor /\ b <= before /\ (b = before \/ b = cursor)
      /\ k \in Nat /\ k <= cursor /\ cursor - k = b
  BY <1>1 DEF Least
<1>5. y = Stretch(text, cursor, m) /\ x = Stretch(text, k, cursor)
  BY <1>2 DEF DeletedBefore, DeletedAfter
<1> HIDE DEF m, b, k
<1>6. x \in Texts /\ x \in Seq(Chars) /\ Len(x) = b /\ y \in Seq(Chars) /\ Len(y) = m - cursor
  <2>1. Stretch(text, k, cursor) \in Texts /\ Len(Stretch(text, k, cursor)) = cursor - k
    BY <1>1, <1>4, StretchText
  <2>2. Stretch(text, cursor, m) \in Texts /\ Len(Stretch(text, cursor, m)) = m - cursor
    BY <1>1, <1>3, StretchText
  <2> QED  BY <1>4, <1>5, <2>1, <2>2, TextsAre
<1>7. cursor + Len(y) = m
  BY <1>1, <1>3, <1>6
<1>8. /\ text' = Splice(w, k, cursor, << >>) /\ cursor' = k /\ region' = NoRegion
      /\ composingText' = composingText
  BY <1>2, <1>7, DeleteIs DEF k, b
<1>9. Replaced(text, cursor, m, << >>, w)
  BY <1>1, <1>3, SpliceReplaces, Zenon
<1> HIDE DEF w
<1>10. /\ w \in Seq(Chars) /\ Len(w) = cursor + (Len(text) - m)
       /\ Stretch(w, 0, cursor) = Stretch(text, 0, cursor)
       /\ Stretch(w, cursor, Len(w)) = Stretch(text, m, Len(text))
  <2>1. cursor + Len(<< >>) = cursor
    BY <1>1
  <2> QED  BY <1>9, <2>1 DEF Replaced
<1>11. cursor <= Len(w)
  BY <1>1, <1>3, <1>10
<1>12. Replaced(w, k, cursor, << >>, text')
  <2>1. Replaced(w, k, cursor, << >>, Splice(w, k, cursor, << >>))
    BY <1>1, <1>4, <1>10, <1>11, SpliceReplaces, Zenon
  <2> QED  BY <1>8, <2>1
<1>13. /\ text' \in Seq(Chars) /\ Len(text') = k + (Len(w) - cursor)
       /\ Stretch(text', 0, k) = Stretch(w, 0, k)
       /\ Stretch(text', k, Len(text')) = Stretch(w, cursor, Len(w))
  <2>1. k + Len(<< >>) = k
    BY <1>1, <1>4
  <2> QED  BY <1>12, <2>1 DEF Replaced
<1>14. Stretch(text', 0, k) = Stretch(text, 0, k)
  <2>1. Stretch(w, 0, k) = Stretch(Stretch(w, 0, cursor), 0, k)
    BY <1>1, <1>4, <1>10, <1>11, StretchOfFirst
  <2>2. Stretch(text, 0, k) = Stretch(Stretch(text, 0, cursor), 0, k)
    BY <1>1, <1>4, StretchOfFirst
  <2> QED  BY <1>10, <1>13, <2>1, <2>2
<1>15. /\ Stretch(text, 0, cursor) = Stretch(text, 0, k) \o x
       /\ Stretch(text, cursor, Len(text)) = y \o Stretch(text, m, Len(text))
  <2>1. 0 \in Nat /\ 0 <= k /\ Len(text) <= Len(text)
    BY <1>1, <1>4
  <2>2. Stretch(text, 0, k) \o Stretch(text, k, cursor) = Stretch(text, 0, cursor)
    BY <1>1, <1>4, <2>1, StretchJoin
  <2>3. Stretch(text, cursor, m) \o Stretch(text, m, Len(text)) = Stretch(text, cursor, Len(text))
    BY <1>1, <1>3, <2>1, StretchJoin
  <2> QED  BY <1>5, <2>2, <2>3
<1>16. u \in Stage /\ v \in Stage
  <2>1. k <= Len(text')
    BY <1>1, <1>4, <1>10, <1>11, <1>13
  <2> QED  BY <1>1, <1>4, <1>13, <2>1, BetweenStage
<1>17. /\ u.left = v.left \o x /\ u.right = y \o v.right /\ u.comp = << >> /\ v.comp = << >>
  BY <1>10, <1>13, <1>14, <1>15 DEF Between
<1>18. /\ v.left = Stretch(text, 0, k) /\ v.right = Stretch(text, m, Len(text))
  BY <1>10, <1>13, <1>14 DEF Between
<1>19. Units(x) \in Nat /\ Units(y) = Len(y)
  BY <1>6, Counts, NarrowCounts
<1>20. /\ e.type = "ImeDelete" /\ e.text = x
       /\ e.before = Units(x) + before - Len(x) /\ e.after = Units(y) + after - Len(y)
  BY DEF DeleteEvent, Ime
<1>21. e \in Event
  BY DeleteEventTyped DEF TypeInv
<1> HIDE DEF e, u, v, x, y
<1>22. e.before = Units(x) \/ (e.before > Units(x) /\ v.left = << >>)
  <2>1. CASE b = before
    BY <1>6, <1>19, <1>20, <2>1
  <2>2. CASE b # before
    <3>1. b = cursor /\ k = 0 /\ before > b
      BY <1>1, <1>4, <2>2
    <3>2. v.left = << >>
      BY <1>18, <3>1, StretchEmpty
    <3> QED  BY <1>4, <1>6, <1>19, <1>20, <3>1, <3>2
  <2> QED  BY <2>1, <2>2
<1>23. e.after = Len(y) \/ (e.after > Len(y) /\ v.right = << >>)
  <2>1. e.after = after
    BY <1>1, <1>3, <1>6, <1>19, <1>20
  <2>2. CASE m = cursor + after
    BY <1>1, <1>6, <2>1, <2>2
  <2>3. CASE m # cursor + after
    <3>1. m = Len(text) /\ after > Len(y)
      BY <1>1, <1>3, <1>6, <2>3
    <3>2. v.right = << >>
      BY <1>1, <1>18, <3>1, StretchEmpty
    <3> QED  BY <2>1, <3>1, <3>2
  <2> QED  BY <2>2, <2>3
<1>24. Deletes(e, u, v)
  <2>1. ~IsWide(y)
    BY DEF y
  <2> QED  BY <1>6, <1>17, <1>20, <1>22, <1>23, <2>1 DEF Deletes
<1>25. Effect(e, u, v)
  BY <1>17, <1>20, <1>24 DEF Effect
<1>26. Leads(<<e>>, u, v)
  BY <1>16, <1>21, <1>25, LeadsByOne
<1>27. EditorStage = u /\ composingText = << >>
  BY AtCursor DEF u
<1>28. EditorInv' /\ EditorStage' = v
  BY <1>8, <1>27, AtCursorNext DEF v
<1> QED  BY <1>26, <1>27, <1>28 DEF e

LEMMA ImeCallAgrees ==
  ASSUME TypeInv, AgreeInv, ImeCall, ~astray'
  PROVE  AgreeInv'
<1>0. ASSUME NEW sent, NEW strays, Call(sent, strays)
      PROVE  /\ ~astray /\ astray' = strays /\ events' = events \o sent
             /\ UNCHANGED <<field, composing_text, active>>
  BY <1>0 DEF Call, compositorVars
<1>1. /\ ~astray /\ EditorInv /\ EditorTyped /\ text \in Texts /\ Len(text) \in Nat
      /\ cursor \in 0 .. Len(text)
  BY TextsAre, LenProperties
     DEF AgreeInv, TypeInv, EditorTyped, ImeCall, setComposingText, commitText,
         deleteSurroundingText, finishComposingText, setComposingRegion, replaceText,
         setSelection, Call
<1>2. ASSUME NEW t \in Texts, setComposingText(t)  PROVE AgreeInv'
  <2>1. Call(<<Ime("ImeComposing", t, 0, 0)>>, FALSE)
    BY <1>2 DEF setComposingText
  <2>2. events' = events \o <<Ime("ImeComposing", t, 0, 0)>>
        /\ UNCHANGED <<field, composing_text, active>>
    BY <1>0, <2>1
  <2>3. <<Ime("ImeComposing", t, 0, 0)>> \in Seq(Event)
    BY EventTyped
  <2>4. EditorInv' /\ Leads(<<Ime("ImeComposing", t, 0, 0)>>, EditorStage, EditorStage')
    BY <1>2, SetComposingLeads
  <2> QED  BY <1>1, <2>2, <2>3, <2>4, CallAgrees
<1>3. ASSUME NEW t \in Texts, commitText(t)  PROVE AgreeInv'
  <2>1. Call(<<Ime("ImeCommit", t, 0, 0)>>, FALSE)
    BY <1>3 DEF commitText
  <2>2. events' = events \o <<Ime("ImeCommit", t, 0, 0)>>
        /\ UNCHANGED <<field, composing_text, active>>
    BY <1>0, <2>1
  <2>3. <<Ime("ImeCommit", t, 0, 0)>> \in Seq(Event)
    BY EventTyped
  <2>4. EditorInv' /\ Leads(<<Ime("ImeCommit", t, 0, 0)>>, EditorStage, EditorStage')
    BY <1>3, CommitTextLeads
  <2> QED  BY <1>1, <2>2, <2>3, <2>4, CallAgrees
<1>4. ASSUME NEW before \in 0 .. 2, NEW after \in 0 .. 1, deleteSurroundingText(before, after)
      PROVE  AgreeInv'
  <2>1. before \in Nat /\ after \in Nat
    OBVIOUS
  <2>2. Call(<<DeleteEvent(before, after)>>, Composing \/ IsWide(DeletedAfter(after)))
    BY <1>4, DeleteIs
  <2>3. /\ events' = events \o <<DeleteEvent(before, after)>>
        /\ UNCHANGED <<field, composing_text, active>>
        /\ astray' = (Composing \/ IsWide(DeletedAfter(after)))
    BY <2>2 DEF Call, compositorVars
  <2>4. ~Composing /\ ~IsWide(DeletedAfter(after))
    BY <2>3
  <2>5. <<DeleteEvent(before, after)>> \in Seq(Event)
    BY <1>1, <2>1, DeleteEventTyped
  <2>6. EditorInv' /\ Leads(<<DeleteEvent(before, after)>>, EditorStage, EditorStage')
    BY <1>1, <1>4, <2>1, <2>4, DeleteLeads
  <2> QED  BY <1>1, <2>3, <2>5, <2>6, CallAgrees
<1>5. CASE finishComposingText
  <2>1. /\ events' = events \o Finishing /\ astray' = CaretLeftBehind
        /\ region' = NoRegion /\ composingText' = << >>
        /\ UNCHANGED <<text, cursor, field, composing_text, active>>
    BY <1>5 DEF finishComposingText, Call, compositorVars
  <2>2. Leads(Finishing, EditorStage, Between(text, cursor, cursor, << >>))
    BY <1>1, <2>1, FinishLeads
  <2>3. EditorInv' /\ EditorStage' = Between(text, cursor, cursor, << >>)
    BY <2>1, AtCursorNext
  <2>4. Leads(Finishing, EditorStage, EditorStage')
    BY <2>2, <2>3
  <2> QED  BY <1>1, <2>1, <2>3, <2>4, FinishingTyped, CallAgrees
<1>6. ASSUME NEW start \in Positions, NEW end \in Positions, start <= end,
             setComposingRegion(start, end)
      PROVE  AgreeInv'
  <2> DEFINE sent == Arrows(cursor, end) \o <<Ime("ImeRecompose", composingText', 0, 0)>>
  <2>1. /\ events' = events \o sent
        /\ astray' = (Composing \/ OverWide(cursor, end) \/ (start = end /\ cursor # end))
        /\ composingText' = Stretch(text, start, end)
        /\ region' = (IF start < end THEN [start |-> start, end |-> end] ELSE NoRegion)
        /\ UNCHANGED <<text, cursor, field, composing_text, active>>
    BY <1>6 DEF setComposingRegion, Call, compositorVars
  <2>2. ~Composing /\ ~OverWide(cursor, end) /\ ~(start = end /\ cursor # end)
    BY <2>1
  <2>3. sent \in Seq(Event)
    <3>1. start \in Nat /\ end \in Nat /\ end <= Len(text) /\ end \in 0 .. Len(text)
      BY <1>1 DEF Positions
    <3>2. composingText' \in Texts
      BY <1>1, <1>6, <2>1, <3>1, StretchText
    <3>3. Arrows(cursor, end) \in Seq(Event)
      BY <1>1, <3>1, ArrowsTyped
    <3>4. <<Ime("ImeRecompose", composingText', 0, 0)>> \in Seq(Event)
      BY <3>2, EventTyped
    <3> QED  BY <3>3, <3>4, ConcatProperties
  <2>4. EditorInv' /\ Leads(sent, EditorStage, EditorStage')
    BY <1>1, <1>6, <2>1, <2>2, SetRegionLeads
  <2> HIDE DEF sent
  <2> QED  BY <1>1, <2>1, <2>3, <2>4, CallAgrees
<1>7. ASSUME NEW start \in Positions, NEW end \in Positions, NEW t \in Short, start <= end,
             replaceText(start, end, t)
      PROVE  AgreeInv'
  <2> DEFINE keys == <<Keys("Backspace", Units(Stretch(text, start, end))),
                       Ime("ImeCommit", t, 0, 0)>>
             sent == Arrows(cursor, end) \o keys
  <2>1. /\ events' = events \o sent
        /\ astray' = (Composing \/ OverWide(cursor, end) \/ OverWide(start, end))
        /\ Replace([start |-> start, end |-> end], t)
        /\ composingText' = composingText /\ region' = NoRegion
        /\ UNCHANGED <<field, composing_text, active>>
    BY <1>7 DEF replaceText, Call, compositorVars
  <2>2. ~Composing /\ ~OverWide(cursor, end) /\ ~OverWide(start, end) /\ t \in Texts
    BY <2>1 DEF Short
  <2>3. sent \in Seq(Event)
    <3>1. start \in Nat /\ end \in Nat /\ end <= Len(text) /\ end \in 0 .. Len(text)
      BY <1>1 DEF Positions
    <3>2. Units(Stretch(text, start, end)) \in Nat
      BY <1>1, <1>7, <3>1, UnitsOfStretch
    <3>3. Arrows(cursor, end) \in Seq(Event)
      BY <1>1, <3>1, ArrowsTyped
    <3>4. Keys("Backspace", Units(Stretch(text, start, end))) \in Event
          /\ Ime("ImeCommit", t, 0, 0) \in Event
      BY <2>2, <3>2, EmptyText, EventTyped DEF Keys
    <3>5. keys \in Seq(Event)
      BY <3>4
    <3> QED  BY <3>3, <3>5, ConcatProperties
  <2>4. EditorInv' /\ Leads(sent, EditorStage, EditorStage')
    BY <1>1, <1>7, <2>1, <2>2, ReplaceLeads
  <2> HIDE DEF sent
  <2> QED  BY <1>1, <2>1, <2>3, <2>4, CallAgrees
<1>8. ASSUME NEW position \in Positions, setSelection(position)  PROVE AgreeInv'
  <2>1. /\ events' = events \o Arrows(cursor, position)
        /\ astray' = (Composing \/ OverWide(cursor, position))
        /\ cursor' = position
        /\ UNCHANGED <<text, region, composingText, field, composing_text, active>>
    BY <1>8 DEF setSelection, Call, compositorVars
  <2>2. ~Composing /\ ~OverWide(cursor, position) /\ position \in 0 .. Len(text)
    BY <2>1 DEF Positions
  <2>3. Arrows(cursor, position) \in Seq(Event)
    BY <1>1, <2>2, ArrowsTyped
  <2>4. Leads(Arrows(cursor, position), Between(text, cursor, cursor, << >>),
              Between(text, position, position, << >>))
    BY <1>1, <2>2, ArrowsLead
  <2>5. EditorStage = Between(text, cursor, cursor, << >>) /\ composingText = << >>
    BY <1>1, <2>2, AtCursor
  <2>6. EditorInv' /\ EditorStage' = Between(text, position, position, << >>)
    BY <2>1, <2>2, <2>5, AtCursorNext DEF Composing
  <2>7. Leads(Arrows(cursor, position), EditorStage, EditorStage')
    BY <2>4, <2>5, <2>6
  <2> QED  BY <1>1, <2>1, <2>3, <2>6, <2>7, CallAgrees
<1> QED  BY <1>2, <1>3, <1>4, <1>5, <1>6, <1>7, <1>8 DEF ImeCall

-----------------------------------------------------------------------------
LEMMA VisibleAgrees ==
  ASSUME TypeInv, AgreeInv, setSoftKeyboardVisible, ~astray'
  PROVE  AgreeInv'
<1> DEFINE r == Head(posted)
           restarts == r.visible /\ r.type # currentInputType
<1>1. /\ ~astray
      /\ events' = events \o (IF restarts THEN Finishing ELSE << >>)
      /\ region' = (IF restarts THEN NoRegion ELSE region)
      /\ composingText' = (IF restarts THEN << >> ELSE composingText)
      /\ astray' = (restarts /\ CaretLeftBehind)
      /\ UNCHANGED <<text, cursor, composing_text, active, field>>
  BY DEF setSoftKeyboardVisible, compositorVars
<1>2. EditorInv /\ EditorTyped
  BY <1>1 DEF AgreeInv, TypeInv
<1> HIDE DEF restarts
<1>3. CASE restarts
  <2>1. /\ events' = events \o Finishing /\ region' = NoRegion /\ composingText' = << >>
        /\ ~CaretLeftBehind
    BY <1>1, <1>3
  <2>2. Leads(Finishing, EditorStage, Between(text, cursor, cursor, << >>))
    BY <1>2, <2>1, FinishLeads
  <2>3. EditorInv' /\ EditorStage' = Between(text, cursor, cursor, << >>)
    BY <1>1, <2>1, AtCursorNext
  <2>4. Leads(Finishing, EditorStage, EditorStage')
    BY <2>2, <2>3
  <2> QED  BY <1>1, <1>2, <2>1, <2>3, <2>4, FinishingTyped, CallAgrees
<1>4. CASE ~restarts
  <2>1. events' = events \o << >> /\ UNCHANGED <<region, composingText>>
    BY <1>1, <1>4
  <2>2. << >> \in Seq(Event)
    BY EmptySeq
  <2>3. EditorInv' /\ EditorStage' = EditorStage
    BY <1>1, <1>2, <2>1 DEF EditorInv, EditorStage, Target, Composing, Between
  <2>4. EditorStage \in Stage
    BY <1>2, EditorStageTyped
  <2>5. Leads(<< >>, EditorStage, EditorStage')
    BY <2>3, <2>4, LeadsNowhere
  <2> QED  BY <1>1, <2>1, <2>2, <2>3, <2>5, CallAgrees
<1> QED  BY <1>3, <1>4

(* The client's side, when the editor stays as it is. *)
LEMMA ClientAgrees ==
  ASSUME AgreeInv, ~astray, UNCHANGED <<text, cursor, region, composingText, events>>,
         \A s \in Stage : Rep(field, composing_text, active, s)
                            => Rep(field', composing_text', active', s)
  PROVE  AgreeInv'
<1>1. EditorInv' /\ EditorStage' = EditorStage
  BY DEF AgreeInv, EditorInv, EditorStage, Target, Composing, Between
<1>2. PICK s \in Stage : Rep(field, composing_text, active, s) /\ Leads(events, s, EditorStage)
  BY DEF AgreeInv, Agree
<1>3. Rep(field', composing_text', active', s) /\ Leads(events', s, EditorStage')
  BY <1>1, <1>2
<1>4. Agree'
  BY <1>3 DEF Agree
<1> QED  BY <1>1, <1>4 DEF AgreeInv

LEMMA PreeditIs ==
  ASSUME NEW f, NEW l, NEW r, NEW p, NEW q, At(f, l, r, p)
  PROVE  At([f EXCEPT !.preedit = q], l, r, q)
<1> DEFINE all == l \o r
           n   == Len(l)
<1>1. f = [text |-> all, caret |-> n, preedit |-> p]
  BY DEF At
<1> HIDE DEF all, n
<1>2. [f EXCEPT !.preedit = q] = [text |-> all, caret |-> n, preedit |-> q]
  BY <1>1
<1> QED  BY <1>2 DEF At, all, n

(* A session resets the preedit and, at its end, what is tracked of it: a  *)
(* composition that keys have typed is left behind.                        *)
LEMMA ResetKeeps ==
  ASSUME NEW f, NEW c, NEW act \in BOOLEAN, NEW s \in Stage, Rep(f, c, act, s),
         act \/ c = << >>, NEW next \in BOOLEAN, NEW d, d = << >> \/ (d = c /\ next)
  PROVE  Rep([f EXCEPT !.preedit = << >>], d, next, s)
<1> DEFINE g == [f EXCEPT !.preedit = << >>]
<1>1. s.left \in Seq(Chars)
  BY DEF Stage
<1>2. s.left \o << >> = s.left
  BY <1>1, ConcatEmptySeq
<1>3. PICK p : At(f, s.left, s.right, p)
  <2>1. CASE act
    BY <2>1 DEF Rep
  <2>2. CASE ~act
    BY <1>2, <2>2 DEF Rep
  <2> QED  BY <2>1, <2>2
<1>4. At(g, s.left, s.right, << >>)
  BY <1>3, PreeditIs
<1> HIDE DEF g
<1>5. d \in {<< >>, s.comp}
  BY DEF Rep
<1>6. ~next => At(g, s.left \o d, s.right, << >>)
  BY <1>2, <1>4
<1> QED  BY <1>4, <1>5, <1>6 DEF Rep, g

LEMMA CommitAgrees ==
  ASSUME TypeInv, AgreeInv, ClientCommit, ~astray', active \in BOOLEAN
  PROVE  AgreeInv'
<1>1. ~astray /\ UNCHANGED <<text, cursor, region, composingText, events>>
  BY DEF ClientCommit, CommitEnable, CommitDisable, CommitContentType, destroyed, Commit, editorVars
<1>2. ASSUME NEW pending \in PendingTypes, CommitEnable(pending)  PROVE AgreeInv'
  <2>1. /\ active' = TRUE /\ field' = [field EXCEPT !.preedit = << >>]
        /\ composing_text' = composing_text /\ astray' = TypedComposition
    BY <1>2 DEF CommitEnable
  <2>2. active \/ composing_text = << >>
    BY <2>1 DEF TypedComposition
  <2>3. \A s \in Stage : Rep(field, composing_text, active, s)
                            => Rep(field', composing_text', active', s)
    BY <2>1, <2>2, ResetKeeps
  <2> QED  BY <1>1, <2>3, ClientAgrees
<1>3. CASE CommitDisable
  <2>1. /\ active' = FALSE /\ field' = [field EXCEPT !.preedit = << >>]
        /\ composing_text' = << >> /\ astray' = TypedComposition
    BY <1>3 DEF CommitDisable, SessionEnds
  <2>2. active \/ composing_text = << >>
    BY <2>1 DEF TypedComposition
  <2>3. \A s \in Stage : Rep(field, composing_text, active, s)
                            => Rep(field', composing_text', active', s)
    BY <2>1, <2>2, ResetKeeps
  <2> QED  BY <1>1, <2>3, ClientAgrees
<1>4. ASSUME NEW type \in InputTypes, CommitContentType(type)  PROVE AgreeInv'
  <2>1. UNCHANGED <<active, composing_text, field>>
    BY <1>4 DEF CommitContentType, compositorVars
  <2> QED  BY <1>1, <2>1, ClientAgrees
<1>5. CASE destroyed
  <2>1. CASE active
    <3>1. /\ active' = FALSE /\ field' = [field EXCEPT !.preedit = << >>]
          /\ composing_text' = << >>
      BY <1>5, <2>1 DEF destroyed, SessionEnds
    <3>2. \A s \in Stage : Rep(field, composing_text, active, s)
                            => Rep(field', composing_text', active', s)
      BY <2>1, <3>1, ResetKeeps
    <3> QED  BY <1>1, <3>2, ClientAgrees
  <2>2. CASE ~active
    <3>1. UNCHANGED <<active, composing_text, field>>
      BY <1>5, <2>2 DEF destroyed, compositorVars
    <3> QED  BY <1>1, <3>1, ClientAgrees
  <2> QED  BY <2>1, <2>2
<1> QED  BY <1>2, <1>3, <1>4, <1>5 DEF ClientCommit

-----------------------------------------------------------------------------
(* What the compositor makes of an event, and what the event stands for.   *)
LEMMA ComposingHandled ==
  ASSUME TypeInv, active \in BOOLEAN, NEW e \in Event, NEW s \in Stage, NEW m \in Stage,
         Rep(field, composing_text, active, s), Effect(e, s, m), handle_ime_composing(e), ~astray'
  PROVE  Rep(field', composing_text', active, m)
<1>1. /\ e.type = "ImeComposing" /\ composing_text' = e.text
      /\ \/ active /\ send_preedit(e.text)
         \/ ~active /\ send_ime_key_events(e.text)
  BY DEF handle_ime_composing
<1>2. m.left = s.left /\ m.right = s.right /\ m.comp = e.text
  BY <1>1 DEF Effect
<1>3. /\ e.text \in Seq(Chars) /\ composing_text \in Seq(Chars)
      /\ s.left \in Seq(Chars) /\ s.right \in Seq(Chars)
  BY TextsAre DEF Event, TypeInv, Stage
<1>4. CASE active
  <2>1. PICK p : At(field, s.left, s.right, p)
    BY <1>4 DEF Rep
  <2>2. At([field EXCEPT !.preedit = e.text], s.left, s.right, e.text)
    BY <2>1, PreeditIs
  <2>3. At(field', m.left, m.right, e.text)
    BY <1>1, <1>2, <1>4, <2>2 DEF send_preedit
  <2> QED  BY <1>1, <1>2, <1>4, <2>3 DEF Rep
<1>5. CASE ~active
  <2>1. At(field, s.left \o composing_text, s.right, << >>)
    BY <1>5 DEF Rep
  <2>2. field' = Retyped(field, composing_text, e.text) /\ ~IsWide(composing_text \o e.text)
    BY <1>1, <1>5 DEF send_ime_key_events, Retyped
  <2>3. At(Retyped(field, composing_text, e.text), s.left \o e.text, s.right, << >>)
    BY <1>3, <2>1, <2>2, RetypedIs
  <2> QED  BY <1>1, <1>2, <1>5, <2>2, <2>3 DEF Rep
<1> QED  BY <1>4, <1>5

LEMMA CommitHandled ==
  ASSUME TypeInv, active \in BOOLEAN, NEW e \in Event, NEW s \in Stage, NEW m \in Stage,
         Rep(field, composing_text, active, s), Effect(e, s, m), handle_ime_commit(e), ~astray'
  PROVE  Rep(field', composing_text', active, m)
<1>1. /\ e.type = "ImeCommit" /\ composing_text' = << >>
      /\ \/ active /\ send_commit(e.text)
         \/ ~active /\ send_ime_key_events(e.text)
  BY DEF handle_ime_commit
<1>2. m.left = s.left \o e.text /\ m.right = s.right /\ m.comp = << >>
  BY <1>1 DEF Effect
<1>3. /\ e.text \in Seq(Chars) /\ composing_text \in Seq(Chars)
      /\ s.left \in Seq(Chars) /\ s.right \in Seq(Chars) /\ m.left \in Seq(Chars)
  BY TextsAre DEF Event, TypeInv, Stage
<1>4. m.left \o << >> = m.left
  BY <1>3, ConcatEmptySeq
<1>5. CASE active
  <2>1. PICK p : At(field, s.left, s.right, p)
    BY <1>5 DEF Rep
  <2> DEFINE g == [field EXCEPT !.preedit = << >>]
  <2>2. At(g, s.left, s.right, << >>)
    BY <2>1, PreeditIs
  <2>3. field' = Inserted(g, e.text)
    BY <1>1, <1>5 DEF send_commit
  <2> HIDE DEF g
  <2>4. At(Inserted(g, e.text), s.left \o e.text, s.right, << >>)
    BY <1>3, <2>2, InsertedIs
  <2> QED  BY <1>1, <1>2, <1>5, <2>3, <2>4 DEF Rep
<1>6. CASE ~active
  <2>1. At(field, s.left \o composing_text, s.right, << >>)
    BY <1>6 DEF Rep
  <2>2. field' = Retyped(field, composing_text, e.text) /\ ~IsWide(composing_text \o e.text)
    BY <1>1, <1>6 DEF send_ime_key_events, Retyped
  <2>3. At(Retyped(field, composing_text, e.text), s.left \o e.text, s.right, << >>)
    BY <1>3, <2>1, <2>2, RetypedIs
  <2> QED  BY <1>1, <1>2, <1>4, <1>6, <2>2, <2>3 DEF Rep
<1> QED  BY <1>5, <1>6

(* Without a composition there is nothing tracked, and the caret is in its place. *)
LEMMA RepAtRest ==
  ASSUME NEW f, NEW c, NEW act \in BOOLEAN, NEW s \in Stage, s.comp = << >>
  PROVE  Rep(f, c, act, s) <=> c = << >> /\ At(f, s.left, s.right, << >>)
<1>1. s.left \in Seq(Chars)
  BY DEF Stage
<1>2. s.left \o << >> = s.left
  BY <1>1, ConcatEmptySeq
<1> QED  BY <1>2 DEF Rep

LEMMA DeleteHandled ==
  ASSUME TypeInv, active \in BOOLEAN, NEW e \in Event, NEW s \in Stage, NEW m \in Stage,
         Rep(field, composing_text, active, s), Effect(e, s, m), handle_ime_delete(e), ~astray'
  PROVE  Rep(field', composing_text', active, m)
<1>1. /\ e.type = "ImeDelete" /\ composing_text' = composing_text
      /\ \/ active /\ send_delete(e)
         \/ ~active /\ field' = Deleted(Backspaced(field, e.before), e.after) /\ astray' = IsWide(e.text)
  BY DEF handle_ime_delete
<1>2. s.comp = << >> /\ m.comp = << >> /\ Deletes(e, s, m)
  BY <1>1 DEF Effect
<1>3. composing_text = << >> /\ At(field, s.left, s.right, << >>)
  BY <1>2, RepAtRest
<1>4. PICK y \in Seq(Chars) :
        /\ s.right = y \o m.right /\ ~IsWide(y)
        /\ e.after = Len(y) \/ (e.after > Len(y) /\ m.right = << >>)
  BY <1>2 DEF Deletes
<1> DEFINE x == e.text
<1>5. /\ s.left = m.left \o x
      /\ e.before = Units(x) \/ (e.before > Units(x) /\ m.left = << >>)
  BY <1>2 DEF Deletes
<1>6. /\ x \in Seq(Chars) /\ m.left \in Seq(Chars) /\ m.right \in Seq(Chars) /\ s.right \in Seq(Chars)
      /\ e.before \in Nat /\ e.after \in Nat
  BY TextsAre DEF Event, Stage
<1>7. At(field, m.left \o x, y \o m.right, << >>)
  BY <1>3, <1>4, <1>5
<1>8. At(field', m.left, m.right, << >>)
  <2>1. CASE active
    <3> DEFINE n == IF x = << >> THEN e.before ELSE Bytes(x)
    <3>1. field' = SurroundingDeleted(field, n, e.after)
      BY <1>1, <2>1 DEF send_delete
    <3>2. n \in Nat /\ (n = Bytes(x) \/ (n > Bytes(x) /\ m.left = << >>))
      <4>1. CASE x = << >>
        BY <1>5, <1>6, <4>1, EmptyCounts
      <4>2. CASE x # << >>
        BY <1>6, <4>2, Counts
      <4> QED  BY <4>1, <4>2
    <3> HIDE DEF n, x
    <3>3. At(SurroundingDeleted(field, n, e.after), m.left, m.right, << >>)
      BY <1>4, <1>6, <1>7, <3>2, SurroundingDeletedIs
    <3> QED  BY <3>1, <3>3
  <2>2. CASE ~active
    <3>1. field' = Deleted(Backspaced(field, e.before), e.after) /\ ~IsWide(x)
      BY <1>1, <2>2
    <3>2. e.before = Len(x) \/ (e.before > Len(x) /\ m.left = << >>)
      BY <1>5, <1>6, <3>1, NarrowCounts
    <3> DEFINE z == y \o m.right
               g == Backspaced(field, e.before)
    <3>3. z \in Seq(Chars) /\ At(field, m.left \o x, z, << >>)
      BY <1>4, <1>6, <1>7
    <3> HIDE DEF x, z
    <3>4. At(g, m.left, z, << >>)
      BY <1>6, <3>2, <3>3, BackspacedIs
    <3> HIDE DEF g
    <3>5. At(g, m.left, y \o m.right, << >>)
      BY <3>4 DEF z
    <3>6. At(Deleted(g, e.after), m.left, m.right, << >>)
      BY <1>4, <1>6, <3>5, DeletedIs
    <3> QED  BY <3>1, <3>6 DEF g
  <2> QED  BY <2>1, <2>2
<1> QED  BY <1>1, <1>2, <1>3, <1>8, RepAtRest

LEMMA RecomposeHandled ==
  ASSUME TypeInv, active \in BOOLEAN, NEW e \in Event, NEW s \in Stage, NEW m \in Stage,
         Rep(field, composing_text, active, s), Effect(e, s, m), handle_ime_recompose(e)
  PROVE  Rep(field', composing_text', active, m)
<1>1. /\ e.type = "ImeRecompose" /\ composing_text' = e.text
      /\ IF active THEN send_recompose(e.text) ELSE UNCHANGED field
  BY DEF handle_ime_recompose
<1> DEFINE x == e.text
<1>2. s.comp = << >> /\ s.left = m.left \o x /\ m.right = s.right /\ m.comp = x
  BY <1>1 DEF Effect
<1>3. At(field, m.left \o x, m.right, << >>)
  BY <1>2, RepAtRest
<1>4. /\ x \in Seq(Chars) /\ m.left \in Seq(Chars) /\ m.right \in Seq(Chars)
  BY TextsAre DEF Event, Stage
<1>5. CASE active
  <2> DEFINE y == << >>
             n == 0
             b == Bytes(x)
  <2>1. /\ y \in Seq(Chars) /\ y \o m.right = m.right /\ ~IsWide(y) /\ n = Len(y) /\ n \in Nat
        /\ b \in Nat /\ b = Bytes(x)
    BY <1>4, EmptyText, EmptyCounts, Counts, ConcatEmptySeq
  <2>2. field' = [SurroundingDeleted(field, b, n) EXCEPT !.preedit = x]
    BY <1>1, <1>5 DEF send_recompose
  <2> HIDE DEF y, n, b, x
  <2>3. At(field, m.left \o x, y \o m.right, << >>)
    BY <1>3, <2>1
  <2>4. At(SurroundingDeleted(field, b, n), m.left, m.right, << >>)
    BY <1>4, <2>1, <2>3, SurroundingDeletedIs
  <2>5. At(field', m.left, m.right, x)
    BY <2>2, <2>4, PreeditIs
  <2> QED  BY <1>1, <1>2, <1>5, <2>5 DEF Rep, x
<1>6. CASE ~active
  BY <1>1, <1>2, <1>3, <1>6 DEF Rep
<1> QED  BY <1>5, <1>6

LEMMA KeyHandled ==
  ASSUME TypeInv, active \in BOOLEAN, NEW e \in Event, NEW s \in Stage, NEW m \in Stage,
         Rep(field, composing_text, active, s), Effect(e, s, m), handle_activity_key(e)
  PROVE  Rep(field', composing_text', active, m)
<1>1. /\ \/ e.type = "Left" /\ field' = Left(field, e.before)
         \/ e.type = "Right" /\ field' = Right(field, e.before)
         \/ e.type = "Backspace" /\ field' = Backspaced(field, e.before)
      /\ composing_text' = composing_text
  BY DEF handle_activity_key
<1>2. s.comp = << >> /\ m.comp = << >>
  BY <1>1 DEF Effect
<1>3. composing_text = << >> /\ At(field, s.left, s.right, << >>)
  BY <1>2, RepAtRest
<1>4. /\ s.left \in Seq(Chars) /\ m.left \in Seq(Chars) /\ s.right \in Seq(Chars)
      /\ m.right \in Seq(Chars) /\ e.before \in Nat
  BY DEF Stage, Event
<1>5. At(field', m.left, m.right, << >>)
  <2>1. CASE e.type = "Left"
    <3>1. PICK y \in Seq(Chars) :
            s.left = m.left \o y /\ m.right = y \o s.right /\ e.before = Len(y)
      BY <2>1 DEF Effect
    <3>2. At(field, m.left \o y, s.right, << >>)
      BY <1>3, <3>1
    <3>3. At(Left(field, Len(y)), m.left, y \o s.right, << >>)
      BY <1>4, <3>2, LeftIs
    <3> QED  BY <1>1, <2>1, <3>1, <3>3
  <2>2. CASE e.type = "Right"
    <3>1. PICK y \in Seq(Chars) :
            m.left = s.left \o y /\ s.right = y \o m.right /\ e.before = Len(y)
      BY <2>2 DEF Effect
    <3>2. At(field, s.left, y \o m.right, << >>)
      BY <1>3, <3>1
    <3>3. At(Right(field, Len(y)), s.left \o y, m.right, << >>)
      BY <1>4, <3>2, RightIs
    <3> QED  BY <1>1, <2>2, <3>1, <3>3
  <2>3. CASE e.type = "Backspace"
    <3>1. PICK y \in Seq(Chars) : s.left = m.left \o y /\ e.before = Len(y)
      BY <2>3 DEF Effect
    <3>2. m.right = s.right
      BY <2>3 DEF Effect
    <3>3. At(field, m.left \o y, m.right, << >>)
      BY <1>3, <3>1, <3>2
    <3>4. At(Backspaced(field, e.before), m.left, m.right, << >>)
      BY <1>4, <3>1, <3>3, BackspacedIs
    <3> QED  BY <1>1, <2>3, <3>4
  <2> QED  BY <1>1, <2>1, <2>2, <2>3
<1> QED  BY <1>1, <1>2, <1>3, <1>5, RepAtRest

LEMMA EventAgrees ==
  ASSUME TypeInv, AgreeInv, process_window_events, ~astray', active \in BOOLEAN
  PROVE  AgreeInv'
<1> DEFINE e == Head(events)
<1>1. /\ ~astray /\ events # << >> /\ events' = Tail(events)
      /\ \/ handle_ime_composing(e) \/ handle_ime_commit(e) \/ handle_ime_delete(e)
         \/ handle_ime_recompose(e) \/ handle_activity_key(e)
      /\ UNCHANGED <<text, cursor, region, composingText, active>>
  BY DEF process_window_events, editorVars
<1>2. events \in Seq(Event) /\ e \in Event
  BY <1>1, HeadTailProperties DEF TypeInv
<1>3. PICK s \in Stage : Rep(field, composing_text, active, s) /\ Leads(events, s, EditorStage)
  BY <1>1 DEF AgreeInv, Agree
<1>4. EditorInv' /\ EditorStage' = EditorStage
  BY <1>1 DEF AgreeInv, EditorInv, EditorStage, Target, Composing, Between
<1>5. PICK u : u = EditorStage
  OBVIOUS
<1>6. Leads(events, s, u)
  BY <1>3, <1>5
<1>7. PICK m \in Stage : Effect(e, s, m) /\ Leads(Tail(events), m, u)
  BY <1>1, <1>2, <1>6, LeadsFirst
<1> HIDE DEF e
<1>8. Rep(field', composing_text', active, m)
  BY <1>1, <1>2, <1>3, <1>7, ComposingHandled, CommitHandled, DeleteHandled, RecomposeHandled,
     KeyHandled
<1>9. Rep(field', composing_text', active', m) /\ Leads(events', m, EditorStage')
  BY <1>1, <1>4, <1>5, <1>7, <1>8
<1>10. Agree'
  BY <1>9 DEF Agree
<1> QED  BY <1>4, <1>10 DEF AgreeInv

LEMMA NextAgreeInv == TypeInv /\ KeyboardInv /\ AgreeInv /\ [Next]_vars => AgreeInv'
<1> SUFFICES ASSUME TypeInv, KeyboardInv, AgreeInv, [Next]_vars PROVE AgreeInv'
  OBVIOUS
<1>1. active \in BOOLEAN
  BY DEF KeyboardInv, RequestsTyped
<1>2. CASE astray'
  BY <1>2 DEF AgreeInv
<1>3. ASSUME UNCHANGED <<text, cursor, region, composingText, events, field, composing_text, active,
                         astray>>
      PROVE  AgreeInv'
  <2>1. CASE astray
    BY <1>3, <2>1 DEF AgreeInv
  <2>2. CASE ~astray
    BY <1>3, <2>2, ClientAgrees
  <2> QED  BY <2>1, <2>2
<1>4. CASE UNCHANGED vars
  BY <1>3, <1>4 DEF vars, editorVars, compositorVars
<1>5. CASE take_soft_keyboard_request
  BY <1>3, <1>5 DEF take_soft_keyboard_request, editorVars, compositorVars
<1>6. CASE ~astray' /\ Next
  BY <1>1, <1>5, <1>6, ImeCallAgrees, VisibleAgrees, EventAgrees, CommitAgrees DEF Next
<1> QED  BY <1>2, <1>4, <1>6

-----------------------------------------------------------------------------
LEMMA AgreementShows == TypeInv /\ RequestsTyped /\ AgreeInv => FieldAgrees
<1> SUFFICES ASSUME TypeInv, RequestsTyped, AgreeInv, Quiet, ~astray, ~Composing
             PROVE  field = [text |-> text, caret |-> cursor, preedit |-> << >>]
  BY DEF FieldAgrees
<1>1. PICK s \in Stage : Rep(field, composing_text, active, s) /\ Leads(events, s, EditorStage)
  BY DEF AgreeInv, Agree
<1>2. EditorTyped /\ EditorInv /\ events = << >> /\ active \in BOOLEAN
  BY DEF TypeInv, AgreeInv, Quiet, RequestsTyped
<1>3. text \in Seq(Chars) /\ Len(text) \in Nat /\ cursor \in 0 .. Len(text) /\ cursor \in Nat
      /\ 0 \in Nat /\ 0 <= cursor /\ cursor <= Len(text)
  BY <1>2, TextsAre, LenProperties DEF EditorTyped
<1>4. EditorStage = Between(text, cursor, cursor, << >>)
  BY <1>2, AtCursor
<1>5. PICK u : u = EditorStage
  OBVIOUS
<1>6. s = u
  <2>1. u \in Stage /\ Leads(<< >>, s, u)
    BY <1>1, <1>2, <1>5, EditorStageTyped
  <2> QED  BY <2>1, LeadsNowhere
<1>7. /\ s.left = Stretch(text, 0, cursor) /\ s.right = Stretch(text, cursor, Len(text))
      /\ s.comp = << >>
  BY <1>4, <1>5, <1>6 DEF Between
<1>8. At(field, s.left, s.right, << >>)
  BY <1>1, <1>2, <1>7, RepAtRest
<1>9. text = s.left \o s.right
  BY <1>3, <1>7, Halves
<1>10. Len(s.left) = cursor
  <2>1. Len(Stretch(text, 0, cursor)) = cursor - 0
    BY <1>3, StretchIs
  <2> QED  BY <1>3, <1>7, <2>1
<1> QED  BY <1>8, <1>9, <1>10 DEF At

LEMMA TrackingShows == TypeInv /\ RequestsTyped /\ AgreeInv => ComposingTracked
<1> SUFFICES ASSUME TypeInv, RequestsTyped, AgreeInv, ~astray
             PROVE  IF active THEN field.preedit \in {<< >>, composing_text}
                    ELSE /\ field.preedit = << >>
                         /\ IsSuffix(composing_text, Stretch(field.text, 0, field.caret))
  BY DEF ComposingTracked
<1>1. PICK s \in Stage : Rep(field, composing_text, active, s) /\ Leads(events, s, EditorStage)
  BY DEF AgreeInv, Agree
<1>2. CASE active
  <2>1. PICK p \in {<< >>, composing_text} : At(field, s.left, s.right, p)
    BY <1>1, <1>2 DEF Rep
  <2>2. field.preedit = p
    BY <2>1 DEF At
  <2> QED  BY <1>2, <2>2
<1>3. CASE ~active
  <2> DEFINE l == s.left
             c == composing_text
             r == s.right
             a == l \o c
             e == << >>
  <2>1. l \in Seq(Chars) /\ c \in Seq(Chars) /\ r \in Seq(Chars) /\ e \in Seq(Chars)
    BY TextsAre, EmptyText DEF Stage, TypeInv
  <2>2. At(field, a, r, << >>)
    BY <1>1, <1>3 DEF Rep
  <2>3. a \in Seq(Chars)
    BY <2>1, ConcatProperties
  <2> HIDE DEF l, c, r, a
  <2>4. field.text = a \o r /\ field.caret = Len(a) /\ field.preedit = << >>
    BY <2>2 DEF At
  <2>5. e \o r = r
    BY <2>1, ConcatEmptySeq
  <2> HIDE DEF e
  <2>6. Stretch(a \o (e \o r), 0, Len(a)) = a
    BY <2>1, <2>3, Pieces
  <2>7. Stretch(field.text, 0, field.caret) = a
    BY <2>4, <2>5, <2>6
  <2>8. IsSuffix(c, l \o c)
    BY <2>1, EndIsSuffix
  <2> QED  BY <1>3, <2>4, <2>7, <2>8 DEF a, c
<1> QED  BY <1>2, <1>3

LEMMA InvariantHolds == Spec => [](TypeInv /\ KeyboardInv /\ AgreeInv)
<1>1. Init => TypeInv /\ KeyboardInv /\ AgreeInv
  BY InitTypeInv, InitKeyboardInv, InitAgreeInv
<1>2. TypeInv /\ KeyboardInv /\ AgreeInv /\ [Next]_vars => TypeInv' /\ KeyboardInv' /\ AgreeInv'
  BY NextTypeInv, NextKeyboardInv, NextAgreeInv
<1> QED  BY <1>1, <1>2, PTL DEF Spec

(* However the calls of the IME, the dispatches of the compositor and the  *)
(* sessions of the client interleave, and whether an edit went out as a    *)
(* preedit, a commit, a deletion or keys: once everything has arrived and  *)
(* no composition is open, the client's field has the text and the cursor  *)
(* of the Editable and shows no preedit, unless the model has gone astray. *)
THEOREM FieldStaysAlike == Spec => []FieldAgrees
<1>1. TypeInv /\ KeyboardInv /\ AgreeInv => FieldAgrees
  BY AgreementShows DEF KeyboardInv
<1> QED  BY <1>1, InvariantHolds, PTL

(* What handle_ime_composing and handle_ime_commit replace next is what    *)
(* the client shows: the compositor's composing_text is its preedit in a   *)
(* session (or a new session has reset that), and otherwise the text just  *)
(* before its caret, which the next backspaces delete.                     *)
THEOREM CompositionIsTracked == Spec => []ComposingTracked
<1>1. TypeInv /\ KeyboardInv /\ AgreeInv => ComposingTracked
  BY TrackingShows DEF KeyboardInv
<1> QED  BY <1>1, InvariantHolds, PTL
=============================================================================

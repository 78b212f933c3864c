------------------------------ MODULE ImeEditing ------------------------------
(***************************************************************************)
(* Text from the Android keyboard to the text field of a Wayland client.   *)
(*   - The IME edits the Editable of a WaylandWindowActivity through a     *)
(*     WaylandInputConnection, which reports each edit as an event.        *)
(*   - The compositor thread handles the events.  While the client has     *)
(*     enabled text_input_v3 it forwards them as preedit, commit and       *)
(*     delete requests; otherwise it types keys that lead from the text    *)
(*     composed before to the new one.                                     *)
(*   - The client's commits enable, disable and describe its field, and    *)
(*     the compositor asks the Activity to show or hide the keyboard.      *)
(*                                                                         *)
(* Positions are counted in characters.  The counts of the events are      *)
(* UTF-16 units and those of the protocol are UTF-8 bytes, as in the code. *)
(*                                                                         *)
(* One window and one text_input object.  Left out: other keys, selections *)
(* of more than a position, text the client changes by itself, the time an *)
(* event takes to reach the client, and a user who hides the keyboard.     *)
(*                                                                         *)
(* There are calls and commits after which the code and the Editable part. *)
(* Each sets astray where it happens, and the model stops there, although  *)
(* comments of the code promise more for some of them: text_input.rs:111,  *)
(* ime.rs:73, WaylandWindowActivity.kt:341.                                *)
(***************************************************************************)
EXTENDS Naturals, FiniteSets, SequencesExt

CONSTANTS
  Chars,        \* characters
  Wide,         \* those of two UTF-16 units, four bytes and no key
  InputTypes,   \* Android input types
  DEFAULT_ANDROID_INPUT_TYPE,
  MaxText,      \* bound on the length of the text
  MaxCalls,     \* bound on the calls of the IME
  MaxCommits    \* bound on the text_input commits of the client

ASSUME CharsAssumption == Wide \subseteq Chars
ASSUME TypesAssumption == DEFAULT_ANDROID_INPUT_TYPE \in InputTypes
ASSUME BoundsAssumption == {MaxText, MaxCalls, MaxCommits} \subseteq Nat

VARIABLES
  \* The Activity
  text,             \* sharedEditable
  cursor,           \* its cursor
  region,           \* its composing region
  composingText,    \* of the WaylandInputConnection
  currentInputType,
  keyboard,         \* is the soft keyboard shown?
  posted,           \* calls of setSoftKeyboardVisible posted to the UI thread
  events,           \* window events on their way to the compositor
  \* The compositor
  active,           \* is there an ActiveTextInput?
  composing_text,
  soft_keyboard_request,  \* at most one
  \* The client
  object,           \* is its text_input alive?
  field,            \* its text field, with the preedit it shows at the caret
  declared,         \* the input type it has last declared
  \* Bookkeeping
  calls, commits,
  astray            \* has something happened that the code does not follow?

editorVars     == <<text, cursor, region, composingText>>
keyboardVars   == <<currentInputType, keyboard>>
compositorVars == <<active, composing_text>>
clientVars     == <<object, declared, commits>>
vars == <<editorVars, keyboardVars, posted, events, compositorVars, soft_keyboard_request,
          clientVars, field, calls, astray>>

Texts == UNION {[1 .. n -> Chars] : n \in 0 .. MaxText}

NoRegion  == [start |-> 0, end |-> 0]
Composing == region # NoRegion

TypeOK ==
  /\ text \in Texts
  /\ cursor \in 0 .. Len(text)
  /\ region.start <= region.end /\ region.end <= Len(text)
  /\ composingText \in Texts
  /\ currentInputType \in InputTypes
  /\ keyboard \in BOOLEAN
  /\ \A i \in DOMAIN posted : posted[i] \in [visible : BOOLEAN, type : InputTypes]
  /\ active \in BOOLEAN
  /\ composing_text \in Texts
  /\ Len(soft_keyboard_request) <= 1
  /\ object \in BOOLEAN
  /\ field.text \in Seq(Chars)
  /\ field.caret \in 0 .. Len(field.text)
  /\ field.preedit \in Texts
  /\ declared \in InputTypes
  /\ calls \in 0 .. MaxCalls
  /\ commits \in 0 .. MaxCommits
  /\ astray \in BOOLEAN

Init ==
  /\ text = <<>>
  /\ cursor = 0
  /\ region = NoRegion
  /\ composingText = <<>>
  /\ currentInputType = DEFAULT_ANDROID_INPUT_TYPE
  /\ keyboard = FALSE
  /\ posted = <<>>
  /\ events = <<>>
  /\ active = FALSE
  /\ composing_text = <<>>
  /\ soft_keyboard_request = <<>>
  /\ object = TRUE
  /\ field = [text |-> <<>>, caret |-> 0, preedit |-> <<>>]
  /\ declared = DEFAULT_ANDROID_INPUT_TYPE
  /\ calls = 0
  /\ commits = 0
  /\ astray = FALSE

-----------------------------------------------------------------------------
(* Texts.  A stretch of one goes from a position to another.               *)
Stretch(s, from, to)   == SubSeq(s, from + 1, to)
Splice(s, from, to, t) == SubSeq(s, 1, from) \o t \o SubSeq(s, to + 1, Len(s))
Least(m, n)            == IF m < n THEN m ELSE n
IsWide(s)              == \E i \in DOMAIN s : s[i] \in Wide
WideOnes(s)            == Cardinality({i \in DOMAIN s : s[i] \in Wide})
Units(s)               == Len(s) + WideOnes(s)
Bytes(s)               == Len(s) + 3 * WideOnes(s)

(* What the client does with a commit string, with backspaces, deletes and *)
(* arrows, and with delete_surrounding_text.                               *)
Inserted(f, t) ==
  [f EXCEPT !.text = Splice(@, f.caret, f.caret, t), !.caret = @ + Len(t)]
Backspaced(f, n) ==
  LET k == Least(n, f.caret)
  IN  [f EXCEPT !.text = Splice(@, f.caret - k, f.caret, <<>>), !.caret = @ - k]
Deleted(f, n) ==
  [f EXCEPT !.text = Splice(@, f.caret, Least(f.caret + n, Len(@)), <<>>)]
Left(f, n)  == [f EXCEPT !.caret = @ - Least(n, @)]
Right(f, n) == [f EXCEPT !.caret = Least(@ + n, Len(f.text))]

BytesBefore(f, n) == Max({k \in 0 .. f.caret : Bytes(Stretch(f.text, f.caret - k, f.caret)) <= n})
BytesAfter(f, n) ==
  Max({k \in 0 .. Len(f.text) - f.caret : Bytes(Stretch(f.text, f.caret, f.caret + k)) <= n})
SurroundingDeleted(f, before, after) ==
  Backspaced(Deleted(f, BytesAfter(f, after)), BytesBefore(f, before))

-----------------------------------------------------------------------------
(* The IME's calls.  Each edits the Editable and reports the edit.         *)
Ime(type, t, before, after) == [type |-> type, text |-> t, before |-> before, after |-> after]
Keys(type, n)               == Ime(type, <<>>, n, 0)

(* One press of an arrow for each unit that lies between two positions.    *)
Arrows(from, to) ==
  IF from > to THEN <<Keys("Left", Units(Stretch(text, to, from)))>>
  ELSE IF from < to THEN <<Keys("Right", Units(Stretch(text, from, to)))>>
  ELSE <<>>
OverWide(from, to) == IsWide(Stretch(text, Least(from, to), from + to - Least(from, to)))

Call(sent, strays) ==
  /\ ~astray
  /\ calls < MaxCalls
  /\ calls' = calls + 1
  /\ astray' = strays
  /\ events' = events \o sent
  /\ UNCHANGED <<keyboardVars, posted, compositorVars, soft_keyboard_request, clientVars, field>>

(* New text takes the place of the region, or goes to the cursor.          *)
Replace(r, t) ==
  /\ text' = Splice(text, r.start, r.end, t)
  /\ text' \in Texts
  /\ cursor' = r.start + Len(t)
Target == IF Composing THEN region ELSE [start |-> cursor, end |-> cursor]

setComposingText(t) ==
  /\ Call(<<Ime("ImeComposing", t, 0, 0)>>, FALSE)
  /\ Replace(Target, t)
  /\ region' = IF t = <<>> THEN NoRegion
               ELSE [start |-> Target.start, end |-> Target.start + Len(t)]
  /\ composingText' = t

commitText(t) ==
  /\ Call(<<Ime("ImeCommit", t, 0, 0)>>, FALSE)
  /\ Replace(Target, t)
  /\ region' = NoRegion
  /\ composingText' = <<>>

(* The IME may ask for more than there is.  Android spares the region, the *)
(* event counts from the cursor.                                           *)
deleteSurroundingText(before, after) ==
  LET from == IF Composing THEN Least(region.start, cursor) ELSE cursor
      to   == IF Composing /\ region.end > cursor THEN region.end ELSE cursor
      deletedBefore == Stretch(text, cursor - Least(before, cursor), cursor)
      beforeLength  == Units(deletedBefore) + before - Len(deletedBefore)
      deletedAfter  == Stretch(text, to, Least(to + after, Len(text)))
  IN  /\ before + after > 0
      /\ Call(<<Ime("ImeDelete", deletedBefore, beforeLength,
                    Units(deletedAfter) + after - Len(deletedAfter))>>,
              Composing \/ IsWide(deletedAfter))
      /\ text' = Splice(Splice(text, to, to + Len(deletedAfter), <<>>),
                        from - Least(before, from), from, <<>>)
      /\ cursor' = cursor - Least(before, from)
      /\ region' = IF Composing THEN [start |-> region.start - Least(before, from),
                                      end   |-> region.end - Least(before, from)]
                   ELSE NoRegion
      /\ UNCHANGED composingText

Finishing == IF composingText = <<>> THEN <<>> ELSE <<Ime("ImeCommit", composingText, 0, 0)>>

(* setComposingRegion has moved the caret to the end of the region, and    *)
(* not the cursor.                                                         *)
CaretLeftBehind == Composing /\ cursor # region.end

finishComposingText ==
  /\ Call(Finishing, CaretLeftBehind)
  /\ region' = NoRegion
  /\ composingText' = <<>>
  /\ UNCHANGED <<text, cursor>>

setComposingRegion(start, end) ==
  /\ composingText' = Stretch(text, start, end)
  /\ Call(Arrows(cursor, end) \o <<Ime("ImeRecompose", composingText', 0, 0)>>,
          Composing \/ OverWide(cursor, end) \/ (start = end /\ cursor # end))
  /\ region' = IF start < end THEN [start |-> start, end |-> end] ELSE NoRegion
  /\ UNCHANGED <<text, cursor>>

replaceText(start, end, t) ==
  /\ Call(Arrows(cursor, end)
            \o <<Keys("Backspace", Units(Stretch(text, start, end))), Ime("ImeCommit", t, 0, 0)>>,
          Composing \/ OverWide(cursor, end) \/ OverWide(start, end))
  /\ Replace([start |-> start, end |-> end], t)
  /\ region' = NoRegion
  /\ UNCHANGED composingText

setSelection(position) ==
  /\ Call(Arrows(cursor, position), Composing \/ OverWide(cursor, position))
  /\ cursor' = position
  /\ UNCHANGED <<text, region, composingText>>

-----------------------------------------------------------------------------
(* The keyboard.  A new input type restarts the input: Android closes the  *)
(* connection, which finishes its composition, and opens another.          *)
setSoftKeyboardVisible ==
  /\ ~astray
  /\ posted # <<>>
  /\ posted' = Tail(posted)
  /\ LET request  == Head(posted)
         restarts == request.visible /\ request.type # currentInputType
     IN  /\ keyboard' = request.visible
         /\ currentInputType' = IF request.visible THEN request.type ELSE currentInputType
         /\ events' = events \o (IF restarts THEN Finishing ELSE <<>>)
         /\ region' = IF restarts THEN NoRegion ELSE region
         /\ composingText' = IF restarts THEN <<>> ELSE composingText
         /\ astray' = (restarts /\ CaretLeftBehind)
  /\ UNCHANGED <<text, cursor, compositorVars, soft_keyboard_request, clientVars, field, calls>>

-----------------------------------------------------------------------------
(* The compositor handles an event.                                        *)
send_preedit(t)   == field' = [field EXCEPT !.preedit = t]
send_commit(t)    == field' = Inserted([field EXCEPT !.preedit = <<>>], t)
send_recompose(t) == field' = [SurroundingDeleted(field, Bytes(t), 0) EXCEPT !.preedit = t]

send_delete_CharCounts(e) ==   \* mutant
  field' = SurroundingDeleted(field, Len(e.text), e.after)
send_delete(e) ==
  LET before_bytes == IF e.text = <<>> THEN e.before ELSE Bytes(e.text)
  IN  field' = SurroundingDeleted(field, before_bytes, e.after)

HasKey(c) == c \notin Wide

(* The characters of a text that have a key, in their order.               *)
WithKeys(s) ==
  LET first[n \in 0 .. Len(s)] ==
        IF n = 0 THEN <<>>
        ELSE IF HasKey(s[n]) THEN Append(first[n - 1], s[n])
        ELSE first[n - 1]
  IN  first[Len(s)]

(* Characters without a key are not typed, and yet deleted later.          *)
send_ime_key_events(t) ==
  LET common == Len(LongestCommonPrefix({composing_text, t}))
  IN  /\ field' = Inserted(Backspaced(field, Len(composing_text) - common),
                           WithKeys(Stretch(t, common, Len(t))))
      /\ astray' = IsWide(composing_text \o t)

handle_ime_composing(e) ==
  /\ e.type = "ImeComposing"
  /\ composing_text' = e.text
  /\ \/ active /\ send_preedit(e.text) /\ UNCHANGED astray
     \/ ~active /\ send_ime_key_events(e.text)

handle_ime_commit(e) ==
  /\ e.type = "ImeCommit"
  /\ composing_text' = <<>>
  /\ \/ active /\ send_commit(e.text) /\ UNCHANGED astray
     \/ ~active /\ send_ime_key_events(e.text)

handle_ime_delete(e) ==
  /\ e.type = "ImeDelete"
  /\ \/ active /\ send_delete(e) /\ UNCHANGED astray
     \/ /\ ~active
        /\ field' = Deleted(Backspaced(field, e.before), e.after)
        /\ astray' = IsWide(e.text)
  /\ UNCHANGED composing_text

handle_ime_recompose(e) ==
  /\ e.type = "ImeRecompose"
  /\ composing_text' = e.text
  /\ IF active THEN send_recompose(e.text) ELSE UNCHANGED field
  /\ UNCHANGED astray

handle_activity_key(e) ==
  /\ \/ e.type = "Left" /\ field' = Left(field, e.before)
     \/ e.type = "Right" /\ field' = Right(field, e.before)
     \/ e.type = "Backspace" /\ field' = Backspaced(field, e.before)
  /\ UNCHANGED <<composing_text, astray>>

process_window_events ==
  /\ ~astray
  /\ events # <<>>
  /\ soft_keyboard_request = <<>>
  /\ events' = Tail(events)
  /\ LET e == Head(events)
     IN  \/ handle_ime_composing(e) \/ handle_ime_commit(e) \/ handle_ime_delete(e)
         \/ handle_ime_recompose(e) \/ handle_activity_key(e)
  /\ UNCHANGED <<editorVars, keyboardVars, posted, active, soft_keyboard_request,
                 clientVars, calls>>

-----------------------------------------------------------------------------
(* A commit of the client on its text_input, with what was pending.        *)
Commit ==
  /\ ~astray
  /\ object
  /\ commits < MaxCommits
  /\ commits' = commits + 1
  /\ UNCHANGED <<editorVars, keyboardVars, posted, events, calls>>

(* The composition that the keys have typed is not the client's preedit.   *)
TypedComposition == ~active /\ composing_text # <<>>

SessionEnds_KeepsComposing ==   \* mutant
  /\ active' = FALSE
  /\ field' = [field EXCEPT !.preedit = <<>>]
  /\ UNCHANGED composing_text
SessionEnds ==
  /\ active' = FALSE
  /\ composing_text' = <<>>
  /\ field' = [field EXCEPT !.preedit = <<>>]

PendingTypes == {<<>>} \cup {<<t>> : t \in InputTypes}

android_input_type_NoDefault(pending) ==   \* mutant
  IF pending = <<>> THEN 0 ELSE pending[1]
android_input_type(pending) ==
  IF pending = <<>> THEN DEFAULT_ANDROID_INPUT_TYPE ELSE pending[1]

CommitEnable(pending) ==
  /\ Commit
  /\ active' = TRUE
  /\ field' = [field EXCEPT !.preedit = <<>>]
  /\ soft_keyboard_request' = <<[visible |-> TRUE, type |-> android_input_type(pending)]>>
  /\ declared' = android_input_type(pending)
  /\ astray' = TypedComposition
  /\ UNCHANGED <<composing_text, object>>

CommitDisable ==
  /\ Commit
  /\ SessionEnds
  /\ soft_keyboard_request' = <<[visible |-> FALSE, type |-> DEFAULT_ANDROID_INPUT_TYPE]>>
  /\ astray' = TypedComposition
  /\ UNCHANGED <<object, declared>>

(* A new content type counts only in a session.                            *)
CommitContentType_Always(type) ==   \* mutant
  /\ Commit
  /\ soft_keyboard_request' = <<[visible |-> TRUE, type |-> type]>>
  /\ declared' = type
  /\ UNCHANGED <<compositorVars, object, field, astray>>
CommitContentType(type) ==
  /\ Commit
  /\ IF active
     THEN /\ soft_keyboard_request' = <<[visible |-> TRUE, type |-> type]>>
          /\ declared' = type
     ELSE UNCHANGED <<soft_keyboard_request, declared>>
  /\ UNCHANGED <<compositorVars, object, field, astray>>

(* The text_input goes, and with it its session, without a request.        *)
destroyed ==
  /\ ~astray
  /\ object
  /\ object' = FALSE
  /\ IF active THEN SessionEnds ELSE UNCHANGED <<compositorVars, field>>
  /\ UNCHANGED <<editorVars, keyboardVars, posted, events, soft_keyboard_request,
                 declared, commits, calls, astray>>

(* The end of the dispatch: the window has the focus, and its Activity     *)
(* gets the last request.                                                  *)
take_soft_keyboard_request ==
  /\ ~astray
  /\ soft_keyboard_request # <<>>
  /\ posted' = posted \o soft_keyboard_request
  /\ soft_keyboard_request' = <<>>
  /\ UNCHANGED <<editorVars, keyboardVars, events, compositorVars, clientVars, field,
                 calls, astray>>

-----------------------------------------------------------------------------
Positions == 0 .. Len(text)
Short     == {t \in Texts : Len(t) <= 1}

ImeCall ==
  \/ \E t \in Texts : setComposingText(t) \/ commitText(t)
  \/ \E before \in 0 .. 2, after \in 0 .. 1 : deleteSurroundingText(before, after)
  \/ finishComposingText
  \/ \E start, end \in Positions : start <= end /\ setComposingRegion(start, end)
  \/ \E start, end \in Positions, t \in Short : start <= end /\ replaceText(start, end, t)
  \/ \E position \in Positions : setSelection(position)

ClientCommit ==
  \/ \E pending \in PendingTypes : CommitEnable(pending)
  \/ CommitDisable
  \/ \E type \in InputTypes : CommitContentType(type)
  \/ destroyed

Next ==
  \/ ImeCall \/ setSoftKeyboardVisible
  \/ process_window_events \/ ClientCommit \/ take_soft_keyboard_request

Spec == Init /\ [][Next]_vars

-----------------------------------------------------------------------------
Quiet == events = <<>> /\ soft_keyboard_request = <<>> /\ posted = <<>>

(* Whatever mix of preedit, commit, delete and key events it took, with    *)
(* sessions that begin and end between them, the field of the client has   *)
(* the text and the cursor of the Editable once a composition is finished. *)
FieldAgrees ==
  Quiet /\ ~astray /\ ~Composing =>
    field = [text |-> text, caret |-> cursor, preedit |-> <<>>]

(* The compositor knows what the client shows of the composition: in a     *)
(* session the preedit, unless a new session has reset it, otherwise the   *)
(* text just before the caret.                                             *)
ComposingTracked ==
  ~astray =>
    IF active THEN field.preedit \in {<<>>, composing_text}
    ELSE /\ field.preedit = <<>>
         /\ IsSuffix(composing_text, Stretch(field.text, 0, field.caret))

(* Once the requests are done, the keyboard is shown if there is a session,*)
(* and the Activity has the input type the client declared last.           *)
KeyboardFollowsSession ==
  Quiet /\ object =>
    /\ keyboard = active
    /\ active => currentInputType = declared
=============================================================================

\* A narrow and a wide character, three calls of the IME, two commits of the client.
CONSTANTS
  Chars = {a_char, emoji}
  Wide = {emoji}
  InputTypes = {text_type, number_type}
  DEFAULT_ANDROID_INPUT_TYPE = text_type
  MaxText = 2
  MaxCalls = 3
  MaxCommits = 2
SPECIFICATION Spec
INVARIANT TypeOK
INVARIANT FieldAgrees
INVARIANT ComposingTracked
INVARIANT KeyboardFollowsSession
CHECK_DEADLOCK FALSE

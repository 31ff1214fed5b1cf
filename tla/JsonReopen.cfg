CONSTANTS
  u1 = u1
  u2 = u2
  text = text
  text2 = text2
  Uids <- MCUids
  Labels = {text, text2}
  NonUtf8 = NonUtf8
  Base64Text = Base64Text
  SaveOutcomes = {"ok", "open_fails"}
SPECIFICATION Spec
INVARIANTS
  ReopenRecoversAcked

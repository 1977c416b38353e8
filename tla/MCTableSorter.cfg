SPECIFICATION Spec
CONSTANTS
  Pages <- MCPages
  Compare <- MCCompare
  LoadColumn = 1
INVARIANT ShownAsRemembered
PROPERTIES TiesKeepOrder SecondClickMirrors

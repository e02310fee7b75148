CONSTANTS
  K = 2
  Pages = 8
  Installations <- BothModes
SPECIFICATION Spec
INVARIANTS DefaultIsIdentity DirtyIsKept
PROPERTIES TranslatesAsMapped TranslationKeepsMapping

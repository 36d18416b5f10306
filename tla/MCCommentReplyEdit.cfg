\* A reply typed while the edit Editor is also open is posted as an edit.
CONSTANTS
    s1 = s1  s2 = s2  t1 = t1  t2 = t2  none = none
    Submits <- MCSubmits
    Translations <- MCTranslations
    None <- none
SPECIFICATION Spec
SYMMETRY MCSymmetry
CHECK_DEADLOCK FALSE
INVARIANT ReplyNeverEdits

CONSTANTS
  Tx = {t1, t2}
  UserItem = {u1}
  NoTx = NoTx
  Nowhere = Nowhere
  Elsewhere = Elsewhere
  MaxUndo = 2
  UndoKept = TRUE
  AnswersLost = TRUE
SPECIFICATION Spec
INVARIANT TypeOK
PROPERTIES OwnOnly AllOrNothing UserSafe
SYMMETRY Symmetry

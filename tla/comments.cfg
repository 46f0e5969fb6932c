\* Three comments on two videos by an author and an administrator in two
\* handlers: enough for a reply to a reply. One text is too short for create, and
\* the other, all tags, is too long for update.
CONSTANTS
  Video = {v1, v2}
  User = {alice, root}
  Admin = {root}
  Comment = {c1, c2, c3}
  Handler = {h1, h2}
  Text <- Texts
  length <- Length
  clean <- Clean
  None = None
SPECIFICATION Spec
SYMMETRY Symmetry
INVARIANTS
  ThreadsAreFlat
  EveryCommentListed
PROPERTIES
  DeletionTakesThread
  EditsAreAuthorised
  ImplementsBoard
\* Ids are never drawn twice: once all are used and all rows are gone, nothing
\* is left to do.
CHECK_DEADLOCK FALSE

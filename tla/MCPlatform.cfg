\* The three services over one database.
CONSTANTS
    ann = ann
    bob = bob
    A = A
    Users = {ann, bob}
    Texts = {A}
    Null = Null
    Zero = Zero
    NoUser = NoUser
    Invalid = Invalid
    BadRole = BadRole
    NotJSON = NotJSON
    InvalidatedPages = 1
    TeamRequests = {q1, q2}
    TaskRequests = {t1, t2}
    CommentRequests = {c1}
    TeamInputs <- MCTeamInputs
    TaskInputs <- MCTaskInputs
    CommentInputs <- MCCommentInputs
    MaxTasks = 1
SPECIFICATION Spec
\* Requests are served once, so the platform stops when all are.
CHECK_DEADLOCK FALSE
INVARIANTS
    ReferencesExist
    WorkIsOwned
    Assumed
    TeamInvariant
    TaskInvariant
    CommentInvariant

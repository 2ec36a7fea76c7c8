CONSTANTS
    Tx = {t1, t2, t3}
    Paper = {1, 2}
    MaxAccount = 3
    OwnerOf <- MCOwnerOf
    Video = {1, 2, 3}
    AuthorOf <- MCAuthorOf
SPECIFICATION Spec
SYMMETRY Symmetry
INVARIANTS
    DeadlockOnlyAtFirstUse

\* Two accounts on one browser; two requests of the page under way; two memories, so
\* that a dialog can create one too many.
CONSTANTS
    Accounts = {ann, bob}
    Existing = {ann}
    Nobody = Nobody
    Ids = {m1, m2}
    Calls = {c1, c2}
SPECIFICATION Spec
INVARIANTS TypeOK RegistrationIsDecided ActsAsItsUser SavedOnce DeletedStaysAway
SYMMETRY Symmetry
CHECK_DEADLOCK FALSE

-------------------------- MODULE MCEventIngestion --------------------------
(* Instances of EventIngestion for TLC.                                     *)
EXTENDS EventIngestion, TLC

CONSTANTS
    plain, padded, blank,   \* headers: two spellings of one key, and no key
    k                       \* the key

MCNormalized == plain :> k @@ padded :> k @@ blank :> Invalid
=============================================================================

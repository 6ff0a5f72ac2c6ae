------------------------- MODULE MCConferenceClient -------------------------
(* Instances of ConferenceClient for TLC.                                   *)
EXTENDS ConferenceClient

\* Streams, and users other than the client's, are interchangeable.
CallSymmetry == Permutations(Subs) \cup Permutations(Users \ {Me})

=============================================================================

---------------------------- MODULE MCOtaUpdater ----------------------------
(* Small instances of OtaUpdater: which orders the server may publish.     *)
EXTENDS OtaUpdater

CONSTANTS u1, u2, u3

MakeOrder(id, v) ==
    [update_id |-> id, target_version |-> v, size |-> 1, same_repo |-> TRUE,
     has_sha256 |-> TRUE, fetchable |-> TRUE, mandatory |-> FALSE,
     requires_button |-> FALSE]

\* Two successive releases, one of them two chunks long.
TwoReleases == {[MakeOrder(u1, 2) EXCEPT !.size = 2], MakeOrder(u2, 3)}

\* An order to be confirmed on the device, a longer one that waives that,
\* and one the library cannot fetch.
AwkwardReleases ==
    {[MakeOrder(u1, 2) EXCEPT !.requires_button = TRUE],
     [MakeOrder(u2, 3) EXCEPT !.requires_button = TRUE, !.mandatory = TRUE,
                              !.size = 2],
     [MakeOrder(u3, 3) EXCEPT !.fetchable = FALSE]}

OneRelease == {MakeOrder(u1, 2)}
=============================================================================

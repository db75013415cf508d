--------------------------- MODULE MCStoreCommand ---------------------------
(***************************************************************************)
(* Flags for the runs of StoreCommand: both tiers, with and without a      *)
(* wallet, a dry run, and flags that are refused before and after hashing. *)
(***************************************************************************)
EXTENDS StoreCommand

Cold == [tier |-> "cold", provider |-> 1, allocation |-> 42,
         marketAddr |-> Unset, dataSet |-> 0, recordKeeper |-> Unset,
         duration |-> DefaultDuration, startEpoch |-> 0,
         dry |-> FALSE, wallet |-> TRUE]

Hot == [Cold EXCEPT !.tier = "hot", !.allocation = 0, !.dataSet = 7,
                    !.recordKeeper = 1, !.wallet = FALSE]

MCFlagSets == {Cold, Hot,
               [Cold EXCEPT !.dry = TRUE, !.duration = 0],
               [Cold EXCEPT !.allocation = 0],
               [Cold EXCEPT !.tier = "warm"]}

MCProducts == {{"ddo_v1"}, {"ddo_v1", "pdp_v1"}}
=============================================================================

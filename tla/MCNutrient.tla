----------------------------- MODULE MCNutrient -----------------------------
(* Two documents; a budget that the credits exhaust before the calls.      *)
EXTENDS NutrientExtractor

CONSTANTS r1, r2, guide, policy

MCLive == [live |-> TRUE, cache |-> TRUE, refresh |-> FALSE]
MCReplayOnly == [MCLive EXCEPT !.live = FALSE]
MCRefresh == [MCLive EXCEPT !.refresh = TRUE]
MCUncached == [MCLive EXCEPT !.cache = FALSE]

MCModes == {MCLive, MCReplayOnly, MCRefresh, MCUncached}
MCLiveOnly == {MCLive}
=============================================================================

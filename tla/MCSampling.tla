----------------------------- MODULE MCSampling -----------------------------
(***************************************************************************)
(* Four of the six readings: one that is computed from another, and one    *)
(* that needs the gas sensor and may be missing.  The clock wraps in every *)
(* second run.                                                             *)
(***************************************************************************)
EXTENDS Sampling

MCKeys == <<"TMP", "PRE", "ALT", "CO2">>
MCDeliveries == {{"TMP", "PRE", "ALT", "CO2"}, {"TMP", "PRE", "ALT"}, {}}
=============================================================================

----------------------------- MODULE RegionStore -----------------------------
(***************************************************************************)
(* What the portal promises the simulators of its regions, without         *)
(* requests, locks or transactions: a request replaces the settings it     *)
(* submits all at once and leaves the others; a region comes into being    *)
(* with settings and takes them along; and a simulator boots with what is  *)
(* there, if the region is enabled.                                        *)
(***************************************************************************)
EXTENDS Naturals

CONSTANTS
  Regions,
  Keys

VARIABLES
  config,    \* [Regions -> {"absent", "enabled", "disabled"}]
  setting,   \* [Regions -> [Keys -> the request that set it, or 0 for none]]
  last,      \* the requests that set something, in their order
  fetched    \* what simulators have booted with

Unset == [k \in Keys |-> 0]

Init ==
  /\ config = [r \in Regions |-> "absent"]
  /\ setting = [r \in Regions |-> Unset]
  /\ last = 0
  /\ fetched = {}

\* A new region is enabled, another stays as it is.
Configure(r, submitted) ==
  /\ config[r] = "absent" => submitted # {}
  /\ last' = last + 1
  /\ config' = [config EXCEPT ![r] = IF @ = "absent" THEN "enabled" ELSE @]
  /\ setting' = [setting EXCEPT ![r] = [k \in Keys |-> IF k \in submitted THEN last + 1 ELSE @[k]]]
  /\ UNCHANGED fetched

Switch(r, to) ==
  /\ config[r] # "absent"
  /\ config' = [config EXCEPT ![r] = to]
  /\ UNCHANGED <<setting, last, fetched>>

Remove(r) ==
  /\ config' = [config EXCEPT ![r] = "absent"]
  /\ setting' = [setting EXCEPT ![r] = Unset]
  /\ UNCHANGED <<last, fetched>>

Boot(r) ==
  /\ config[r] = "enabled"
  /\ fetched' = fetched \cup {setting[r]}
  /\ UNCHANGED <<config, setting, last>>

Next ==
  \E r \in Regions :
    \/ \E submitted \in SUBSET Keys : Configure(r, submitted)
    \/ \E to \in {"enabled", "disabled"} : Switch(r, to)
    \/ Remove(r) \/ Boot(r)

Spec == Init /\ [][Next]_<<config, setting, last, fetched>>
=============================================================================

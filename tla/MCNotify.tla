------------------------------ MODULE MCNotify ------------------------------
(* Small instances of Notify for TLC. *)
EXTENDS Notify, TLC

CONSTANTS http, tls, dns, n1, n2, w1, w2, w3

(* Two checks of different types that share one name, and a third with a   *)
(* name of its own.                                                        *)
MCNameOf == [c \in Checks |-> IF c = dns THEN n2 ELSE n1]

(* The two that share a name may change places, if Tls is empty. *)
MCSymmetry == Permutations({http, tls})

(* w1 takes everything; w2 is an on-call channel for critical alarms and   *)
(* recoveries, with a longer cooldown; w3 is a pager, for alarms only.     *)
MCEvents == [w \in Webhooks |->
    CASE w = w1 -> EventTypes
      [] w = w2 -> {"check_down", "check_up", "cert_expiring"}
      [] w = w3 -> {"check_down"}]
MCSeverities == [w \in Webhooks |-> IF w = w1 THEN Levels ELSE {"critical"}]
MCCooldown == [w \in Webhooks |-> IF w = w1 THEN 1 ELSE 2]

(* Expired for half a day, half a day left (both day 0), two days left     *)
(* (warning) and three days left (healthy).                                *)
MCExpiryTimes == {-1, 1, 4, 6}
MCWarnOrHealthy == {4, 6}
=============================================================================

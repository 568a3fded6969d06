--------------------------- MODULE MCDigestReport ---------------------------
(* The small instances of DigestReport.                                    *)
EXTENDS DigestReport

CONSTANTS mem_pressure, backup_stale, api

(* Observed again, mem_pressure is merged while a message holds it, or     *)
(* starts a second item; backup_stale waits behind it.                     *)
MCMaxObs == [k \in Keys |-> IF k = mem_pressure THEN 2 ELSE 1]
=============================================================================

------------------------------ MODULE DnsSteps ------------------------------
(***************************************************************************)
(* What a program of a DNS provider (providers/dns/...) is made of.  A      *)
(* provider's Present and CleanUp are straight-line programs: look a zone   *)
(* up, log in, list records, create or write back, remember an identifier,  *)
(* delete.  A program is a sequence of steps, and DnsProvider gives every   *)
(* step its meaning.                                                        *)
(*                                                                          *)
(* A step names the client method it calls, and the provider's client says  *)
(* for every method how the code judges the answer of the service: which    *)
(* ways of refusing a request the service has, and which of them the code   *)
(* notices.                                                                 *)
(***************************************************************************)
EXTENDS Naturals, Sequences, FiniteSets

Step(op, m) == [op |-> op, m |-> m, cond |-> "always", cas |-> FALSE,
                tolerated |-> FALSE, retried |-> FALSE]

Steps == [op : STRING, m : STRING, cond : STRING, cas : BOOLEAN,
          tolerated : BOOLEAN, retried : BOOLEAN]

\* Return an error.
Fail == Step("fail", "")

-----------------------------------------------------------------------------
(* Groups of steps.                                                         *)
Loops == {"deleteEach", "deleteAll"}
Deletes == Loops \cup {"deletePicked", "deleteOwn", "deleteSet", "deleteById"}
Creates == {"create", "replace", "putMore", "roll"}
Writes == Deletes \cup Creates \cup {"putRest"}
Reads == {"ask", "once", "token", "list", "listOwn"}

-----------------------------------------------------------------------------
(* How a client judges the answers to a call.                               *)
Judge(speaks, sees) == [speaks |-> speaks, sees |-> sees]
\* The service refuses by the HTTP status and the code looks at the status.
Status == Judge({"status"}, {"status"})
=============================================================================

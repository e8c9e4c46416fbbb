------------------------------ MODULE Tickets ------------------------------
(***************************************************************************)
(* Support tickets (app/blueprints/tickets/routes.py): opened by members    *)
(* and guests, answered, claimed and closed by staff, deleted.              *)
(*                                                                         *)
(* A reply reads the ticket and later writes back its status and assignee   *)
(* without looking again.  A file that is attached is on disk before its    *)
(* row is committed, and outside the transaction.                           *)
(***************************************************************************)
EXTENDS Gunicorn

CONSTANTS
  TicketIds,     \* tickets.id
  Staff          \* who may answer tickets of others

Requester == "requester"
Nobody    == "nobody"

ASSUME TicketAssumption == Staff \cap {Requester, Nobody} = {}

VARIABLES
  ticket,     \* [TicketIds -> the row in tickets]
  attached,   \* [TicketIds -> the files with a row in ticket_attachments, numbered]
  files,      \* files in static/uploads/tickets
  ticketreq,  \* [Workers -> the request being served]
  ticketfails,
  (* history *)
  claimant,   \* [TicketIds -> who claimed the ticket last]
  crossed     \* tickets whose assignee was written by a request that had read it before another wrote

ticketVars == <<ticket, attached, files, ticketreq, ticketfails, claimant, crossed>>

Pending    == {"Waiting on Staff", "Waiting on User"}
Closed     == {"Completed"}
Open  == {"Open"} \cup Pending \cup Closed
TicketRows == [status : {"absent", "deleted"} \cup Open, guest : BOOLEAN, assigned : Staff \cup {Nobody}]
NoTicket   == [status |-> "absent", guest |-> FALSE, assigned |-> Nobody]
TicketFree == [at |-> "free", tickets |-> {}, by |-> Nobody, status |-> "Open", assigned |-> Nobody,
               file |-> {}, claims |-> FALSE, stale |-> FALSE]
TicketRequests == [at : {"free", "opening", "replying"}, tickets : SUBSET TicketIds,
                   by : Staff \cup {Nobody, Requester}, status : Open, assigned : Staff \cup {Nobody},
                   file : SUBSET Nat, claims : BOOLEAN, stale : BOOLEAN]

TicketInit ==
  /\ ticket    = [t \in TicketIds |-> NoTicket]
  /\ attached  = [t \in TicketIds |-> {}]
  /\ files = {} /\ ticketfails = 0 /\ crossed = {}
  /\ ticketreq = [w \in Workers |-> TicketFree]
  /\ claimant  = [t \in TicketIds |-> Nobody]

TicketEnd(w) == ticketreq' = [ticketreq EXCEPT ![w] = TicketFree]
Exists(t)    == ticket[t].status \in Open

\* Mutant: the file of an attachment is not saved.
SaveNothing(attach) == attach \in BOOLEAN /\ UNCHANGED files

\* attachment.save: a file of its own name, or none at all.
SaveFile(attach) ==
  IF attach THEN files' = files \cup {Cardinality(files) + 1} ELSE UNCHANGED files
Saved(attach) == IF attach THEN {Cardinality(files) + 1} ELSE {}

\* new_ticket: the row is inserted and the file saved ...
OpenTicket(w, t, by, attach) ==
  /\ ticket[t].status = "absent" /\ \A v \in Workers : t \notin ticketreq[v].tickets
  /\ SaveFile(attach)
  /\ ticketreq' = [ticketreq EXCEPT ![w] = [TicketFree EXCEPT !.at = "opening", !.tickets = {t}, !.by = by,
                                                              !.file = Saved(attach)]]
  /\ UNCHANGED <<ticket, attached, ticketfails, claimant, crossed>>

\* ... and both are committed.
CommitTicket(w, t) ==
  /\ ticketreq[w].at = "opening"
  /\ ticket' = [ticket EXCEPT ![t] = [status |-> "Open", guest |-> ticketreq[w].by = Nobody, assigned |-> Nobody]]
  /\ attached' = [attached EXCEPT ![t] = ticketreq[w].file]
  /\ TicketEnd(w)
  /\ UNCHANGED <<files, ticketfails, claimant, crossed>>

\* What staff and requesters make of the status when they do not choose one.
Default(t, by) ==
  IF by = Requester THEN "Waiting on Staff"
  ELSE IF ticket[t].guest THEN "Completed" ELSE "Waiting on User"

Reply(t, by, chosen, attach, assigned) ==
  [at |-> "replying", tickets |-> {t}, by |-> by, assigned |-> assigned, file |-> Saved(attach),
   status |-> IF chosen = "Open" THEN Default(t, by) ELSE chosen,
   claims |-> by \in Staff /\ chosen \notin Closed, stale |-> FALSE]

\* Mutant: a closing reply of another member of staff gives the ticket back.
ReadAndRelease(w, t, by, chosen, attach) ==
  /\ Exists(t)
  /\ SaveFile(attach)
  /\ ticketreq' = [ticketreq EXCEPT ![w] = Reply(t, by, chosen, attach,
       IF by = Requester THEN ticket[t].assigned ELSE IF chosen \notin Closed THEN by ELSE Nobody)]
  /\ UNCHANGED <<ticket, attached, ticketfails, claimant, crossed>>

\* reply_ticket: the ticket is read; staff claim it by any answer that does not close it ("Open"
\* stands for a status left to the default).  The file is saved before the ticket is written.
ReadTicket(w, t, by, chosen, attach) ==
  /\ Exists(t)
  /\ SaveFile(attach)
  /\ ticketreq' = [ticketreq EXCEPT ![w] = Reply(t, by, chosen, attach,
       IF by \in Staff /\ chosen \notin Closed THEN by ELSE ticket[t].assigned)]
  /\ UNCHANGED <<ticket, attached, ticketfails, claimant, crossed>>

\* The reply, its attachment, the status and the assignee are committed together.  The reply has
\* a foreign key: to a ticket deleted meanwhile it fails.
CommitReply(w, t) ==
  /\ ticketreq[w].at = "replying"
  /\ IF ~Exists(t) THEN TicketEnd(w) /\ UNCHANGED <<ticket, attached, claimant, crossed>>
     ELSE /\ ticket' = [ticket EXCEPT ![t].status = ticketreq[w].status,
                                      ![t].assigned = ticketreq[w].assigned]
          /\ attached' = [attached EXCEPT ![t] = @ \cup ticketreq[w].file]
          /\ ticketreq' = [v \in Workers |-> IF v = w THEN TicketFree
                             ELSE [ticketreq[v] EXCEPT !.stale = @ \/ t \in ticketreq[v].tickets]]
          /\ IF ticketreq[w].claims
             THEN claimant' = [claimant EXCEPT ![t] = ticketreq[w].by] /\ crossed' = crossed \ {t}
             ELSE UNCHANGED claimant /\ crossed' = IF ticketreq[w].stale THEN crossed \cup {t} ELSE crossed
  /\ UNCHANGED <<files, ticketfails>>

\* delete_ticket: the replies go with the ticket; the attachments and their files stay.
DeleteTicket(w, t) ==
  /\ Exists(t)
  /\ ticket' = [ticket EXCEPT ![t] = [NoTicket EXCEPT !.status = "deleted"]]
  /\ UNCHANGED <<attached, files, ticketreq, ticketfails, claimant, crossed>>

TicketStart(w) ==
  /\ ticketreq[w].at = "free"
  /\ \E t \in TicketIds, attach \in BOOLEAN :
       \/ \E by \in {Requester, Nobody} : OpenTicket(w, t, by, attach)
       \/ \E by \in Staff \cup {Requester}, chosen \in {"Open", "Completed"} :
            ReadTicket(w, t, by, chosen, attach)
       \/ ~attach /\ DeleteTicket(w, t)

TicketContinue(w) == \E t \in ticketreq[w].tickets : CommitTicket(w, t) \/ CommitReply(w, t)

\* The request dies, or waits for a reply that waits for it (both have the foreign key's lock on the
\* ticket, both want to update it) and is the one given up: its rows are undone, its file is not.
TicketFail(w) ==
  /\ ticketreq[w].at # "free" /\ ticketfails < MaxFailures
  /\ ticketfails' = ticketfails + 1
  /\ TicketEnd(w)
  /\ UNCHANGED <<ticket, attached, files, claimant, crossed>>

\* Tickets, requests and the history keep to their types, and every attachment has its file.
TicketTypeOK ==
  /\ ticket \in [TicketIds -> TicketRows]
  /\ files \subseteq Nat /\ IsFiniteSet(files)
  /\ attached \in [TicketIds -> SUBSET files]
  /\ ticketreq \in [Workers -> TicketRequests]
  /\ ticketfails \in Nat /\ crossed \subseteq TicketIds
  /\ claimant \in [TicketIds -> Staff \cup {Nobody}]

\* A ticket stays with the member of staff who claimed it last, through any number of replies by
\* the requester and closings by others; only a request that read the ticket before another wrote
\* it can undo that, by writing back the assignee it had read.
ClaimStands ==
  \A t \in TicketIds : Exists(t) /\ t \notin crossed => ticket[t].assigned = claimant[t]
=============================================================================

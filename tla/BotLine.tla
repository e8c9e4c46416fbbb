------------------------------ MODULE BotLine ------------------------------
(***************************************************************************)
(* The text line in which /api/bot/queue hands one message to a bot, and   *)
(* what each kind of bot does with it.                                     *)
(*                                                                         *)
(* A message is a record                                                   *)
(*   [uuid, region, group, channel, subject, high, created]                *)
(* whose first five fields are strings ("" where the column is NULL or     *)
(* nothing was found), high its priority and created its created_at.       *)
(* Uuids are the strings of 36 characters or more, the only thing about    *)
(* the length of a field that the bots look at.                            *)
(***************************************************************************)
EXTENDS Naturals, Sequences

CONSTANTS Uuids    \* the field values that pass llStringLength(x) >= 36

GroupChannels == {"group_chat", "group_notice"}
Channels      == GroupChannels \cup {"im", "region"}   \* delivery_channel

(***************************************************************************)
(* Acknowledgement requests: the query parameters of GET /api/bot/ack/<id>.*)
(* ReferenceAck is the form of the API reference, which names no success.  *)
(***************************************************************************)
OkAck            == [success |-> "1",      error |-> ""]
WrongRegionAck   == [success |-> "0",      error |-> "wrong_region"]
MissingGroupAck  == [success |-> "0",      error |-> "missing_group"]
ReferenceAck     == [success |-> "absent", error |-> "wrong_region"]
Acks             == {OkAck, WrongRegionAck, MissingGroupAck, ReferenceAck}

\* How bot_ack reads the parameters: an absent success counts as "1".
Succeeded(ack) == ack.success \notin {"0", "false", "no"}

\* Mutants: a bot that reports success for a line it refuses, a refusal that is never sent.
RefusedAsDone(ack)   == [said |-> "none", acked |-> TRUE,  ack |-> OkAck]
RefusedSilently(ack) == [said |-> "none", acked |-> FALSE, ack |-> ack]

\* What a bot does with one line: the channel it speaks on ("none" for
\* silence) and the acknowledgement it sends (none at all when acked is FALSE).
Spoken(channel)  == [said |-> channel, acked |-> TRUE,  ack |-> OkAck]
Refused(ack)     == [said |-> "none",  acked |-> TRUE,  ack |-> ack]
Ignored          == [said |-> "none",  acked |-> FALSE, ack |-> OkAck]

\* format_message_text_line: eight fields, the missing ones empty. The id, the
\* message type and the body are never empty.
Line(msg) == << "id", "type", msg.uuid, msg.region, msg.group, msg.channel,
                msg.subject, "body" >>

\* llParseString2List with "|" as separator: empty fields are dropped.
ParseString2List(line) == SelectSeq(line, LAMBDA field : field # "")

\* process_group_line of GridServiceBotGroup.lsl, on a list of eight fields.
GroupScript(p) ==
  IF p[5] \notin Uuids THEN Refused(MissingGroupAck) ELSE Spoken(p[6])

\* process_message_line of GridServiceBot.lsl, in a region named here.
LslScript(here, line) ==
  LET p        == ParseString2List(line)
      n        == Len(p)
      delivery == IF n >= 8 THEN p[6] ELSE IF p[3] \in Uuids THEN "im" ELSE "region"
  IN  IF n < 5 THEN Ignored
      ELSE IF delivery \in GroupChannels THEN GroupScript(p)
      ELSE IF delivery = "im" \/ p[3] \in Uuids THEN Spoken("im")
      ELSE IF p[4] # here THEN Refused(WrongRegionAck)
      ELSE Spoken("region")

\* deliver_line of grid_bot_client.py: split keeps empty fields, every line of
\* eight fields is printed and acknowledged, wherever the client is.
PythonClient(line) ==
  Spoken(IF line[6] \in GroupChannels THEN line[6]
         ELSE IF line[3] # "" THEN "im" ELSE "region")

\* A bot written from the API reference: it reads every field, and asks for a
\* message of another region to be queued again with ?error=wrong_region.
ReferenceBot(here, msg) ==
  IF msg.channel = "region" /\ msg.region \notin {"", here}
  THEN Refused(ReferenceAck)
  ELSE Spoken(msg.channel)

\* What a bot of this kind, standing in region here, does with a message.
Handle(kind, here, msg) ==
  IF kind = "lsl" THEN LslScript(here, Line(msg))
  ELSE IF kind = "client" THEN PythonClient(Line(msg))
  ELSE ReferenceBot(here, msg)
=============================================================================

----------------------------- MODULE MCBotQueue -----------------------------
(***************************************************************************)
(* Small instances of the bot queue.  The message contents are the ones    *)
(* the portal enqueues: an IM to a follower, a region announcement, a      *)
(* group chat post and a group notice.                                     *)
(***************************************************************************)
EXTENDS BotQueue

CONSTANTS Channel1, Channel2, Channel3, HighFirst

mc_Uuids == {"avatar-uuid", "group-uuid"}

\* The columns enqueue_bot_message fills for each channel: an IM to an avatar, an
\* announcement for a region (or for none), a chat post and a notice to a group.
Sample(channel, high, created) ==
  [uuid    |-> IF channel = "im" THEN "avatar-uuid" ELSE "",
   region  |-> IF channel = "region" THEN "Welcome" ELSE "",
   group   |-> IF channel \in GroupChannels THEN "group-uuid" ELSE "",
   channel |-> IF channel = "anywhere" THEN "region" ELSE channel,
   subject |-> IF channel = "group_notice" THEN "Party" ELSE "",
   high    |-> high,
   created |-> created]

\* The last message is of high priority when HighFirst, the first two share a second.
mc_Content ==
  [m \in Messages |->
     CASE m = 1 -> Sample(Channel1, FALSE, 1)
       [] m = 2 -> Sample(Channel2, FALSE, 1)
       [] m = 3 -> Sample(Channel3, HighFirst, 2)]

\* An in-world script and a headless client polling the same queue.
mc_Mixed         == [b \in Bots |-> IF b = "b1" THEN "lsl" ELSE "client"]
mc_LslBots       == [b \in Bots |-> "lsl"]
mc_AtWelcome     == [b \in Bots |-> "Welcome"]
mc_AtPlaza       == [b \in Bots |-> "Plaza"]
=============================================================================

-------------------------- MODULE ConflatedChannel --------------------------
(***************************************************************************)
(* What a watch promises its consumer: whatever the consumer's pace, a     *)
(* delivery takes it straight to the latest published value, and between   *)
(* deliveries its view does not change.  There is no backlog to catch up.  *)
(***************************************************************************)
CONSTANTS
  Values,   \* what can be published
  Nothing   \* the value before the first publication

VARIABLES
  latest,   \* the latest published value
  view      \* what the consumer believes

channelVars == <<latest, view>>

ChannelInit == latest = Nothing /\ view = Nothing

Publish(v) ==
  /\ latest' = v
  /\ UNCHANGED view

Deliver ==
  /\ view' = latest
  /\ UNCHANGED latest

ChannelNext == Deliver \/ \E v \in Values : Publish(v)

ChannelSpec == ChannelInit /\ [][ChannelNext]_channelVars

=============================================================================

------------------------------ MODULE MCParts -------------------------------
(***************************************************************************)
(* Instances for TLC of the parts of the system that run on their own: the *)
(* fixed-step clock, the request counters, a socket's output, the          *)
(* announcements to the directory and the rules of a battle.  A behaviour  *)
(* is one of a single part.                                                *)
(***************************************************************************)
EXTENDS FixedStepClockProperties, RateLimitState, SocketPumpState, AnnouncementsState,
        BattleState

VARIABLE part  \* the part that runs

counters == <<nowMs, windows, oldest, refused, granted>>
socket == <<call, sent, closing, queued, channel, pump, pending, message, asked,
            closeSent, peerClosed, pongs>>
announcing == <<rooms, news, checkIn, put, accepted, entry, astray, missed, steady>>
battle == <<phase, overtime, winner, time, scores, alive, life, kills, lifeKills, shots,
            standing, stage, work, fresh, appeared, blasts>>

RL == INSTANCE RateLimit
SP == INSTANCE SocketPump
AN == INSTANCE Announcements
BR == INSTANCE BattleRules

PartsInit ==
  /\ part \in {"clock", "counters", "socket", "announcements", "battle"}
  /\ Init /\ RL!Init /\ SP!Init /\ AN!Init /\ BR!Init

PartsNext ==
  /\ UNCHANGED part
  /\ \/ part = "clock" /\ Next
        /\ UNCHANGED <<counters, socket, announcing, battle>>
     \/ part = "counters" /\ RL!Next
        /\ UNCHANGED <<vars, socket, announcing, battle>>
     \/ part = "socket" /\ SP!Next
        /\ UNCHANGED <<vars, counters, announcing, battle>>
     \/ part = "announcements" /\ AN!Next
        /\ UNCHANGED <<vars, counters, socket, battle>>
     \/ part = "battle" /\ BR!Next
        /\ UNCHANGED <<vars, counters, socket, announcing>>

allVars == <<part, vars, counters, socket, announcing, battle>>

PartsSpec == PartsInit /\ [][PartsNext]_allVars
=============================================================================

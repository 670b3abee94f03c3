-------------------------------- MODULE Port --------------------------------
(***************************************************************************)
(* Port attributes (mrvl_sai_port.c).  Speed and flow control live in one  *)
(* feature bitmap of the switch that a setter reads, changes and writes    *)
(* back; the default VLAN and its priority live in one flow of the VLAN    *)
(* table.  A getter gives what the switch says, taken to run at the speed  *)
(* it was set to; a setter of a value that its switch statement does not   *)
(* list changes nothing.                                                   *)
(***************************************************************************)
EXTENDS L2Tables

CONSTANTS
  AttrPort,      \* the ports whose attributes are set
  Speed, Pcp

\* SlowSpeed are those with a half duplex feature, 10M and 100M.
SlowSpeed == {10, 100}

ASSUME PortValues ==
  /\ AttrPort \subseteq Port
  /\ Speed \subseteq {10, 100, 1000, 2500, 10000, 20000, 25000, 40000,
                      100000, 1000000}
  /\ Pcp \subseteq 0 .. 7

VARIABLES
  features,     \* featuresBmp: speed and duplex, and the two pause bits
  learning,     \* fpaLibPortSrcMacLearning
  down,         \* FPA_PORT_CONFIG_DOWN
  wanted        \* history: what was last accepted for each attribute

portVars == <<features, learning, down, wanted>>

FlowControl == {"DISABLE", "TX_ONLY", "RX_ONLY", "BOTH_ENABLE"}
LearnModes  == {"DISABLE", "HW", "DROP", "CPU_TRAP", "CPU_LOG"}
HwLearning  == {"FRWD_NONE", "AUTO", "DROP_NONE", "DROP_CTRL", "FRWD_CTRL"}

\* The pause bits of a mode: PAUSE and PAUSE_ASYM.
PauseBits(fc) ==
  CASE fc = "DISABLE" -> {}
    [] fc = "TX_ONLY" -> {"ASYM"}
    [] fc = "RX_ONLY" -> {"PAUSE", "ASYM"}
    [] fc = "BOTH_ENABLE" -> {"PAUSE"}

LearnBits(m) ==
  CASE m = "DISABLE" -> "FRWD_NONE" [] m = "HW" -> "AUTO"
    [] m = "DROP" -> "DROP_NONE" [] m = "CPU_TRAP" -> "DROP_CTRL"
    [] m = "CPU_LOG" -> "FRWD_CTRL"

\* The switch starts with ports of any speed, duplex and admin state.
PortInit ==
  \E s \in Speed, half, off \in BOOLEAN :
    /\ half => s \in SlowSpeed
    /\ features = [p \in AttrPort |-> [speed |-> s, half |-> half, pause |-> {}]]
    /\ learning = [p \in AttrPort |-> "FRWD_NONE"]
    /\ down = [p \in AttrPort |-> off]
    /\ wanted = [p \in AttrPort |->
                   [speed |-> s, fc |-> "DISABLE", learn |-> "DISABLE",
                    up |-> ~off, vlan |-> NoVlan, pcp |-> Ignore]]

-----------------------------------------------------------------------------
(* What the getters read.                                                  *)

SpeedOf(p) == features[p].speed
FlowControlOf(p) ==
  CHOOSE fc \in FlowControl : PauseBits(fc) = features[p].pause
LearnModeOf(p) == CHOOSE m \in LearnModes : LearnBits(m) = learning[p]
AdminUp(p) == ~down[p]

DefaultFlow(p) == vlanFlow[<<NoVlan, p>>]
DefaultVlanOf(p) ==
  IF DefaultFlow(p).vid = Ignore THEN NoVlan ELSE DefaultFlow(p).vid
DefaultPriorityOf(p) == DefaultFlow(p).pcp

-----------------------------------------------------------------------------
(* The setters.                                                            *)

\* Mutant: the whole bitmap is written anew.
FeaturesWritten(f, s) ==
  [speed |-> s, half |-> f.half /\ s \in SlowSpeed, pause |-> {}]

\* Half duplex survives only from one slow speed to another.
WithSpeed(f, s) ==
  [f EXCEPT !.speed = s, !.half = f.half /\ s \in SlowSpeed]

SetSpeed(p, s) ==
  /\ features' = [features EXCEPT ![p] = WithSpeed(@, s)]
  /\ wanted' = [wanted EXCEPT ![p].speed = s]
  /\ UNCHANGED <<l2Vars, learning, down>>

SetFlowControl(p, fc) ==
  /\ features' = [features EXCEPT ![p].pause = PauseBits(fc)]
  /\ wanted' = [wanted EXCEPT ![p].fc = fc]
  /\ UNCHANGED <<l2Vars, learning, down>>

SetLearning(p, m) ==
  /\ learning' = [learning EXCEPT ![p] = LearnBits(m)]
  /\ wanted' = [wanted EXCEPT ![p].learn = m]
  /\ UNCHANGED <<l2Vars, features, down>>

\* A port is never shut down: "do not shutdown port since no one configure
\* no shutdown".
SetAdminState(p, up) ==
  /\ down' = [down EXCEPT ![p] = FALSE]
  /\ wanted' = [wanted EXCEPT ![p].up = up]
  /\ UNCHANGED <<l2Vars, features, learning>>

\* A new default VLAN forgets the default priority.
SetDefaultVlan(p, v) ==
  /\ vlanFlow' = [vlanFlow EXCEPT
       ![<<NoVlan, p>>] = [there |-> TRUE, vid |-> v, pcp |-> Ignore]]
  /\ wanted' = [wanted EXCEPT ![p].vlan = v]
  /\ UNCHANGED <<l2Group, l2Ref, fdb, asked, odd, features, learning, down>>

SetDefaultPriority(p, c) ==
  /\ DefaultFlow(p).there
  /\ vlanFlow' = [vlanFlow EXCEPT ![<<NoVlan, p>>].pcp = c]
  /\ wanted' = [wanted EXCEPT ![p].pcp = c]
  /\ UNCHANGED <<l2Group, l2Ref, fdb, asked, odd, features, learning, down>>

PortNext ==
  \E p \in AttrPort :
    \/ \E s \in Speed : SetSpeed(p, s)
    \/ \E fc \in FlowControl : SetFlowControl(p, fc)
    \/ \E m \in LearnModes : SetLearning(p, m)
    \/ \E up \in BOOLEAN : SetAdminState(p, up)
    \/ \E v \in Vlan : SetDefaultVlan(p, v)
    \/ \E c \in Pcp : SetDefaultPriority(p, c)

=============================================================================

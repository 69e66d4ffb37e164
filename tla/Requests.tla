------------------------------- MODULE Requests -------------------------------
(***************************************************************************)
(* The callers of the relay controller.  A PUT for one relay from the      *)
(* relay page or from SignalK, an input, a schedule and the console each   *)
(* make one call: Command of module RelayCtrl.  "All on" and "All off" of  *)
(* the relay page (web_ui.c, put_all) and a Switch Bank Control message    *)
(* (n2k_bridge.cpp, on_message) are one call per relay, in the order of    *)
(* the channels, with anything in between.                                 *)
(*                                                                         *)
(* Which relays "All on" leaves out is read from the page's own copy of    *)
(* the settings, which io_task hands out after the controller's (module    *)
(* IoLoop).  One such request runs at a time; that of the other task       *)
(* appears as the single commands in between.                              *)
(***************************************************************************)
EXTENDS RelayCtrl

CONSTANTS
    Channel,      \* the number of each relay
    Messages      \* Switch Bank Control messages: a field of 0..3 per relay

ASSUME RequestAssumption ==
    /\ Channel \in [Relays -> Nat]
    /\ \A i, j \in Relays : Channel[i] = Channel[j] => i = j
    /\ Messages \subseteq [Relays -> 0 .. 3]

VARIABLES
    webCfg,       \* s_cfg of web_ui.c
    run           \* the request being served

allVars == <<vars, webCfg, run>>

\* Who asked, what is left to do, whether a call has failed; and how much the
\* request knows: nobody else has switched or rewired anything since it began
\* ("alone"), or the pairs it looked at are the controller's ("current"),
\* whatever else was edited.
Run == [ ask    : {"none", "on", "off", "bus"},
         on     : SUBSET Relays,
         off    : SUBSET Relays,
         failed : BOOLEAN,
         view   : {"alone", "current", "stale"} ]

Nobody == [ask |-> "none", on |-> {}, off |-> {}, failed |-> FALSE, view |-> "stale"]

Left == run.on \cup run.off

\* The loads that are on, as everybody but the controller sees it.
Loads(c, m) == (m \ c.wiredNc) \cup (c.wiredNc \ m)

---------------------------------------------------------------------------
\* Mutant: of each pair, the first relay is switched on.
AllOnSkippedOnce(c) == {i \in Relays : \E j \in c.partner[i] : Channel[j] < Channel[i]}

\* web_ui_all_on_skipped()
AllOnSkipped(c) == {i \in Relays : c.partner[i] # {}}

PutAll(on) ==
    /\ up
    /\ run.ask = "none"
    /\ run' = [ask    |-> IF on THEN "on" ELSE "off",
               on     |-> IF on THEN Relays \ AllOnSkipped(webCfg) ELSE {},
               off    |-> IF on THEN {} ELSE Relays,
               failed |-> FALSE,
               view   |-> IF webCfg.partner = cfg.partner THEN "alone" ELSE "stale"]
    /\ UNCHANGED <<vars, webCfg>>

\* on_message() with what switch_bank_decode_control() makes of a message for
\* this bank; 2 and 3 ask for nothing.
BusControl(fields) ==
    /\ up
    /\ run.ask = "none"
    /\ run' = [ask    |-> "bus",
               on     |-> {i \in Relays : fields[i] = 1},
               off    |-> {i \in Relays : fields[i] = 0},
               failed |-> FALSE,
               view   |-> "stale"]
    /\ UNCHANGED <<vars, webCfg>>

\* What relay_ctrl_set() returns: the coil is as asked, or it waits.
Refused(i, on) ==
    IF on # (i \in cfg.wiredNc) THEN i \notin mask' /\ wait'[i] = Idle
                                ELSE i \in mask'

\* Mutant: the last result counts.
FailedSoFarLast(i, on) == Refused(i, on)

\* put_all() keeps the first error and goes on; on_message() looks at none.
FailedSoFar(i, on) == run.failed \/ (run.ask # "bus" /\ Refused(i, on))

SetNext ==
    \E i \in Left :
        /\ \A j \in Left : Channel[i] <= Channel[j]
        /\ Set(i, i \in run.on)
        /\ run' = [run EXCEPT !.on = run.on \ {i},
                              !.off = run.off \ {i},
                              !.failed = FailedSoFar(i, i \in run.on)]
        /\ UNCHANGED webCfg

\* The answer: 503 after a failure, the state of all relays otherwise.
Answer ==
    /\ run.ask # "none"
    /\ Left = {}
    /\ run' = Nobody
    /\ UNCHANGED <<vars, webCfg>>

---------------------------------------------------------------------------
\* What happens to a request while others act.
Seen(view) ==
    CASE cfg'.partner # cfg.partner -> "stale"
      [] /\ cfg'.partner = cfg.partner
         /\ view = "alone"
         /\ <<cfg.wiredNc, mask, wait>>' # <<cfg.wiredNc, mask, wait>> -> "current"
      [] OTHER -> view

Meanwhile == run' = [run EXCEPT !.view = Seen(run.view)]

OtherCommand ==
    /\ \E i \in Relays : Command(i)
    /\ Meanwhile
    /\ UNCHANGED webCfg

Lost == SkLost /\ Meanwhile /\ UNCHANGED webCfg

\* io_task: settings go to the controller first and to the page last; no tick
\* comes in between.
NewConfig(c) ==
    /\ webCfg = cfg
    /\ UpdateConfig(c)
    /\ Meanwhile
    /\ UNCHANGED webCfg

\* web_ui_update_config()
WebTakes ==
    /\ up
    /\ webCfg # cfg
    /\ webCfg' = cfg
    /\ UNCHANGED <<vars, run>>

IoTick ==
    /\ webCfg = cfg
    /\ Tick
    /\ Meanwhile
    /\ UNCHANGED webCfg

Time == Elapse /\ UNCHANGED <<webCfg, run>>

Down ==
    /\ Crash \/ PowerCut
    /\ run' = Nobody
    /\ webCfg' = cfg

BootUp(c) ==
    /\ Boot(c)
    /\ webCfg' = c
    /\ UNCHANGED run

RequestInit ==
    /\ Init
    /\ webCfg = cfg
    /\ run = Nobody

RequestNext ==
    \/ \E on \in BOOLEAN : PutAll(on)
    \/ \E fields \in Messages : BusControl(fields)
    \/ SetNext
    \/ Answer
    \/ OtherCommand
    \/ Lost
    \/ \E c \in Configs : NewConfig(c)
    \/ WebTakes
    \/ IoTick
    \/ Time
    \/ Down
    \/ \E c \in Configs : BootUp(c)

RequestSpec == RequestInit /\ [][RequestNext]_allVars

\* As FairSpec of RelayCtrl: io_task runs, hands the settings on and ticks.
RequestFairSpec ==
    /\ RequestSpec
    /\ WF_allVars(Time)
    /\ WF_allVars(IoTick)
    /\ WF_allVars(WebTakes)
    /\ WF_allVars(\E c \in Configs : BootUp(c))

---------------------------------------------------------------------------
\* Two relays that exclude each other and are both wired to their normally
\* closed terminals: "All off" energizes their coils and cannot have both.
NcPair(c) == \E i \in c.wiredNc : c.partner[i] \cap c.wiredNc # {}

\* Types of the two variables of this module.
RequestTypeOK == webCfg \in Configs /\ run \in Run

\* "All on" switches no load off and "All off" switches none on, whatever else
\* is going on (web_ui.c:237-240) and is edited, wiring and modes too; also
\* while the page has yet to take on such an edit.  Only where the pairs
\* differ from those the request looked at it may.
AllOnlyAsAsked ==
    [][SetNext /\ run.view # "stale" =>
          /\ run.ask = "on" => Loads(cfg, mask) \subseteq Loads(cfg, mask')
          /\ run.ask = "off" /\ ~NcPair(cfg) => Loads(cfg, mask') \subseteq Loads(cfg, mask)]_allVars

\* When "All on" or "All off" reports success and nobody interfered, every
\* load it stands for is as asked, or waits for a dead time to become so: no
\* later call of the loop has undone an earlier one, no failure of an earlier
\* one was forgotten, and nothing is left waiting to come on by itself.
AllMeansAll ==
    Left = {} /\ ~run.failed /\ run.view = "alone" =>
        /\ run.ask = "on" =>
              Relays \ AllOnSkipped(cfg) \subseteq Loads(cfg, mask) \cup (Running(wait) \ cfg.wiredNc)
        /\ run.ask = "off" /\ ~NcPair(cfg) =>
              Loads(cfg, mask) \subseteq Running(wait) /\ Running(wait) \subseteq cfg.wiredNc
=============================================================================

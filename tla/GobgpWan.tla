------------------------------ MODULE GobgpWan ------------------------------
(***************************************************************************)
(* The second gobgpd, for the WAN: its process, and the two configurations *)
(* it can have, of which Gohan's wins over the local one.                  *)
(* config/gobgp.go, called from config/etcd.go.                            *)
(*                                                                         *)
(* Its zebra client is set with the function of the first gobgpd, so that  *)
(* a refusal starts the retry of Gobgp, which tries the first gobgpd.      *)
(***************************************************************************)
EXTENDS Gobgp

CONSTANT WanConfigs   \* configurations with an AS

Sides == {"local", "gohan"}

VARIABLES
    wanProcess,   \* GobgpWanProcess: None, or what the process was given
    wanConfig,    \* gobgpWanConfigLocal, gobgpWanConfigGohan; None if As = 0
    wanKey,       \* history: the last readable value of each key
    wanSpoiled    \* history: the last value was unreadable, or never got through

wanVars == <<wanProcess, wanConfig, wanKey, wanSpoiled>>

WanTypeOK ==
    /\ wanProcess \in WanConfigs \cup {None, "unconfigured"}
    /\ {wanConfig, wanKey} \subseteq [Sides -> WanConfigs \cup {None}]
    /\ wanSpoiled \in BOOLEAN

WanInit ==
    /\ wanProcess = None
    /\ wanConfig = [s \in Sides |-> None] /\ wanKey = wanConfig
    /\ wanSpoiled = FALSE

\* The local configuration first.
PreferLocal(conf) == IF conf["local"] # None THEN conf["local"] ELSE conf["gohan"]

Prefer(conf) == IF conf["gohan"] # None THEN conf["gohan"] ELSE conf["local"]

\* The process is started, and configured if it answers one of ten calls.
GobgpWanConfig(conf, answers) ==
    /\ wanProcess' = IF Prefer(conf) = None THEN None
                     ELSE IF answers THEN Prefer(conf) ELSE "unconfigured"
    /\ wanSpoiled' = (Prefer(conf) # None /\ ~answers)
    /\ LET refused == Prefer(conf) # None /\ answers /\ ~zebraUp
       IN  pc' = IF refused THEN At("retry", GobgpZebraRetry(pc.retry)) ELSE pc

Unmoved == UNCHANGED <<gobgpConfig, neighborMap, server, zebraUp, next, stale, clean, kept, unadded,
                       bgpKey, doubtful, forgotten, owedZebra, gaveUp>>

\* The process is stopped before the value is looked at.
GobgpWanParse(side, c, answers) ==
    /\ Idle
    /\ wanConfig' = [wanConfig EXCEPT ![side] = c]
    /\ wanKey' = [wanKey EXCEPT ![side] = c]
    /\ GobgpWanConfig(wanConfig', answers)
    /\ Unmoved

GobgpWanUnreadable ==
    /\ Idle
    /\ wanProcess' = None
    /\ wanSpoiled' = TRUE
    /\ UNCHANGED <<wanConfig, wanKey, pc>> /\ Unmoved

GobgpWanStop(side, answers) ==
    /\ Idle
    /\ wanConfig' = [wanConfig EXCEPT ![side] = None]
    /\ wanKey' = [wanKey EXCEPT ![side] = None]
    /\ GobgpWanConfig(wanConfig', answers)
    /\ Unmoved

\* The WAN gobgpd runs with the configuration of the side that goes first and
\* has one, falls back to the other side's when that is deleted, and does not
\* run when neither has one (GobgpWanParse, GobgpWanStop); except after an
\* unreadable value, which stops it, and when it did not answer in time.
WanFollows ==
    ~wanSpoiled =>
        /\ wanKey["gohan"] # None => wanProcess = wanKey["gohan"]
        /\ wanKey["gohan"] = None => wanProcess = wanKey["local"]

=============================================================================

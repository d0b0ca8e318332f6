------------------------------- MODULE Network ------------------------------
(***************************************************************************)
(* src/net/netmgr.c and wifi.c: the network thread.  It waits for a network *)
(* at boot and opens the setup hotspot without one, joins what the app asks *)
(* for, and watches a radio whose firmware may hang: two driver reloads,    *)
(* then a restart of the machine, of a stopped and cool grill, at most once *)
(* an hour.  Minutes are a choice of the step; the hour is the wall clock's.*)
(* Names, addresses, signal and the list of networks are left out.          *)
(***************************************************************************)
EXTENDS Naturals

CONSTANTS
  Ssids,        \* networks
  Nothing

VARIABLES
  state,        \* g_state
  hs,           \* g_hs_active
  want,         \* g_req_ssid with g_req_connect, or Nothing
  hotspotReq,   \* g_req_hotspot: "none", "on", "off"
  doing,        \* the thread: [at, ssid, was]
  force,        \* network.force_setup in the settings, and as the thread read it
  dog,          \* the watchdog's statics: [ever, failing, resets]
  saved,        \* external: NetworkManager's profiles
  link,         \* external: what the radio carries: a network, "hotspot" or Nothing
  hung,         \* external: the radio's firmware
  grill,        \* the published status: "stopped" and cool, or "busy"
  marker        \* .net_reboot: how old its time is: "none", "recent", "old"

nvars == <<state, hs, want, hotspotReq, doing, force, dog, saved, link, hung,
           grill, marker>>

Idle == [at |-> "loop", ssid |-> Nothing, was |-> FALSE]
Asleep == [ever |-> FALSE, failing |-> FALSE, resets |-> 0]

Init ==
  /\ state = "boot" /\ hs = FALSE /\ want = Nothing /\ hotspotReq = "none"
  /\ doing = Idle /\ dog = Asleep
  /\ force \in [kept : BOOLEAN, read : {FALSE}]
  /\ saved \in SUBSET Ssids /\ link = Nothing /\ hung = FALSE /\ grill = "stopped"
  /\ marker = "none"

env == <<saved, link, hung, grill>>

\* refresh: what NetworkManager says; a join under way is not overruled
Refresh(l) ==
  /\ hs' = (l = "hotspot")
  /\ state' = IF state = "connecting" THEN state
              ELSE IF l = "hotspot" THEN "hotspot"
              ELSE IF l \in Ssids THEN "online"
              ELSE IF state = "boot" THEN "boot" ELSE "offline"

\* hotspot_up, pf_hotspot_start: it may fail
HotspotUp ==
  \/ ~hung /\ link' = "hotspot" /\ Refresh("hotspot")
  \/ UNCHANGED link /\ Refresh(link)

-----------------------------------------------------------------------------
(* What is asked of it, from the web server's thread *)

\* pf_netmgr_connect: one join at a time
Connect(s) ==
  /\ state # "connecting" /\ want = Nothing
  /\ want' = s /\ state' = "connecting"
  /\ UNCHANGED <<hs, hotspotReq, doing, force, dog, env, marker>>

\* pf_netmgr_hotspot
Hotspot(on) ==
  /\ hotspotReq' = IF on THEN "on" ELSE "off"
  /\ UNCHANGED <<state, hs, want, doing, force, dog, env, marker>>

-----------------------------------------------------------------------------
(* The thread *)

\* net_thread before its loop: force_setup is read once
Begin ==
  /\ doing.at = "loop" /\ state = "boot" /\ force.kept /\ ~force.read
  /\ force' = [force EXCEPT !.read = TRUE]
  /\ UNCHANGED <<state, hs, want, hotspotReq, doing, dog, env, marker>>

\* do_connect takes the request; one for the hotspot is read and lost with it
JoinBegins ==
  /\ doing.at = "loop" /\ want # Nothing
  /\ doing' = [at |-> "join", ssid |-> want, was |-> link = "hotspot"]
  /\ want' = Nothing /\ state' = "connecting" /\ hotspotReq' = "none"
  /\ UNCHANGED <<hs, force, dog, env, marker>>

\* pf_wifi_connect: a network that could not be joined is forgotten, its
\* profile of an earlier join included
JoinEndsQuietly ==   \* fault: the failed branch leaves the state to refresh
  /\ doing.at = "join" /\ doing' = Idle
  /\ \/ /\ ~hung /\ link' = doing.ssid /\ saved' = saved \cup {doing.ssid}
        /\ state' = "online" /\ hs' = FALSE
     \/ /\ saved' = saved \ {doing.ssid} /\ link' = Nothing
        /\ Refresh(link')
  /\ UNCHANGED <<want, hotspotReq, force, dog, hung, grill, marker>>
JoinEnds ==
  /\ doing.at = "join"
  /\ \/ /\ ~hung /\ link' = doing.ssid /\ saved' = saved \cup {doing.ssid}
        /\ state' = "online" /\ doing' = [doing EXCEPT !.at = "joined"]
     \/ /\ saved' = saved \ {doing.ssid} /\ link' \in {Nothing, link} \ {doing.ssid}
        /\ state' = "offline"
        /\ doing' = [doing EXCEPT !.at = IF doing.was THEN "fallback" ELSE "joined"]
  /\ UNCHANGED <<hs, want, hotspotReq, force, dog, hung, grill, marker>>

\* the hotspot that was up is opened again; another join may have been asked for
JoinFallsBack ==
  /\ doing.at = "fallback" /\ doing' = [doing EXCEPT !.at = "joined"] /\ HotspotUp
  /\ UNCHANGED <<want, hotspotReq, force, dog, saved, hung, grill, marker>>
JoinRefreshed ==
  /\ doing.at = "joined" /\ doing' = Idle /\ Refresh(link)
  /\ UNCHANGED <<want, hotspotReq, force, dog, env, marker>>

\* the hotspot is opened or, by pf_hotspot_stop, closed: that may fail
AskedHotspot ==
  /\ doing.at = "loop" /\ want = Nothing /\ hotspotReq # "none" /\ hotspotReq' = "none"
  /\ IF hotspotReq = "on" THEN HotspotUp
     ELSE /\ link' \in {link} \cup (IF link = "hotspot" THEN {Nothing} ELSE {})
          /\ Refresh(link')
  /\ UNCHANGED <<want, doing, force, dog, saved, hung, grill, marker>>

\* the boot state: setup mode, the wait that is over, or another look
AtBoot ==
  /\ doing.at = "loop" /\ want = Nothing /\ hotspotReq = "none" /\ state = "boot"
  /\ \/ force.read /\ force' = [force EXCEPT !.kept = FALSE] /\ HotspotUp
     \/ ~force.read /\ UNCHANGED force /\ HotspotUp
     \/ ~force.read /\ UNCHANGED <<force, link>> /\ Refresh(link)
  /\ UNCHANGED <<want, hotspotReq, doing, dog, saved, hung, grill, marker>>

Running == doing.at = "loop" /\ want = Nothing /\ hotspotReq = "none" /\ state # "boot"

LooksAgain ==
  /\ Running /\ Refresh(link)
  /\ UNCHANGED <<want, hotspotReq, doing, force, dog, env, marker>>

-----------------------------------------------------------------------------
(* The radio's watchdog *)

Watching == dog.ever /\ ~hs /\ state \notin {"hotspot", "connecting"}
CanReach == link \in Ssids /\ ~hung

WatchdogRests ==
  /\ Running
  /\ LET ever == dog.ever \/ state = "online" IN
     IF ever /\ ~hs /\ state \notin {"hotspot", "connecting"}
     THEN /\ \/ CanReach /\ dog' = [ever |-> TRUE, failing |-> FALSE, resets |-> 0]
             \/ dog' = [dog EXCEPT !.ever = TRUE, !.failing = TRUE]   \* since now, or not a minute
     ELSE dog' = [dog EXCEPT !.ever = ever, !.failing = FALSE]
  /\ UNCHANGED <<state, hs, want, hotspotReq, doing, force, env, marker>>

\* unreachable for a minute, and the diagnosis says "hung"
Hangs == Running /\ Watching /\ dog.failing /\ hung

RadioReset ==
  /\ Hangs /\ dog.resets < 2
  /\ dog' = [dog EXCEPT !.resets = @ + 1]
  /\ hung' \in BOOLEAN
  /\ UNCHANGED <<state, hs, want, hotspotReq, doing, force, saved, link, grill, marker>>

\* the status, then the marker of the last restart; both files are written,
\* and nobody looks at whether they were
MayRestart == grill = "stopped" /\ marker # "recent"
GivesUp ==
  /\ Hangs /\ dog.resets >= 2 /\ MayRestart
  /\ marker' \in {"recent", marker}
  /\ doing' = [doing EXCEPT !.at = "restart"]
  /\ UNCHANGED <<state, hs, want, hotspotReq, force, dog, env>>

\* the helper forces the restart: everything in memory starts again
Restart ==
  /\ doing.at = "restart"
  /\ state' = "boot" /\ hs' = FALSE /\ want' = Nothing /\ hotspotReq' = "none"
  /\ doing' = Idle /\ dog' = Asleep /\ force' = [force EXCEPT !.read = FALSE]
  /\ link' = Nothing /\ hung' = FALSE /\ grill' = "stopped"
  /\ UNCHANGED <<saved, marker>>
RestartRefused ==
  /\ doing.at = "restart" /\ doing' = Idle
  /\ UNCHANGED <<state, hs, want, hotspotReq, force, dog, env, marker>>

\* the daemon alone starts again
DaemonRestarts ==
  /\ state' = "boot" /\ hs' = FALSE /\ want' = Nothing /\ hotspotReq' = "none"
  /\ doing' = Idle /\ dog' = Asleep /\ force' = [force EXCEPT !.read = FALSE]
  /\ UNCHANGED <<env, marker>>

-----------------------------------------------------------------------------
(* The rest of the world *)

AutoConnects ==
  /\ link = Nothing /\ ~hung /\ \E s \in saved : link' = s
  /\ UNCHANGED <<state, hs, want, hotspotReq, doing, force, dog, saved, hung, grill, marker>>
LinkDrops ==
  /\ link \in Ssids /\ link' = Nothing
  /\ UNCHANGED <<state, hs, want, hotspotReq, doing, force, dog, saved, hung, grill, marker>>
RadioHangs ==
  /\ ~hung /\ hung' = TRUE
  /\ UNCHANGED <<state, hs, want, hotspotReq, doing, force, dog, saved, link, grill, marker>>
GrillTurns ==
  /\ grill' \in {"stopped", "busy"}
  /\ UNCHANGED <<state, hs, want, hotspotReq, doing, force, dog, saved, link, hung, marker>>
HourPasses ==
  /\ marker = "recent" /\ marker' = "old"
  /\ UNCHANGED <<state, hs, want, hotspotReq, doing, force, dog, env>>

Next ==
  \/ \E s \in Ssids : Connect(s)
  \/ \E on \in BOOLEAN : Hotspot(on)
  \/ Begin \/ JoinBegins \/ JoinEnds \/ JoinFallsBack \/ JoinRefreshed
  \/ AskedHotspot \/ AtBoot \/ LooksAgain
  \/ WatchdogRests \/ RadioReset \/ GivesUp \/ Restart \/ RestartRefused \/ DaemonRestarts
  \/ AutoConnects \/ LinkDrops \/ RadioHangs \/ GrillTurns \/ HourPasses

Spec == Init /\ [][Next]_nvars

-----------------------------------------------------------------------------

\* The state says "connecting" only while a join stands or is under way: a join
\* that failed, a hotspot that did not come back or a second request never
\* leaves the page waiting (pf_netmgr_connect refuses while it does).
JoinIsNotForever ==
  state = "connecting" => want # Nothing \/ doing.at = "join"

=============================================================================

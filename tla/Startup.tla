------------------------------- MODULE Startup ------------------------------
(***************************************************************************)
(* main up to the start of the worker (main.c): EAL and the mbuf pool, the *)
(* ports one after another, check_all_ports_link_status and the set-up of  *)
(* the handlers.  Once EAL is up a signal may come at any moment; only the *)
(* link check looks at it before offloader_loop does.                      *)
(***************************************************************************)
EXTENDS Naturals, FiniteSets, FiniteSetsExt

CONSTANTS
  Devices,        \* the sets of ports that EAL may find
  MaxCheckTime,   \* MAX_CHECK_TIME
  NoPort          \* interfaces is still the null pointer

ASSUME StartupAssumption ==
  /\ \A devices \in Devices : devices \subseteq Nat /\ IsFiniteSet(devices)
  /\ MaxCheckTime \in Nat \ {0} /\ NoPort \notin Nat

VARIABLES
  main,           \* where the main lcore is
  force_quit,
  devices,        \* the ports there are
  started,        \* ... that rte_eth_dev_start started
  interface,      \* the port of interfaces[0]
  count, print_flag, all_ports_up,  \* locals of check_all_ports_link_status
  unchecked,      \* ports that the current round has still to look at
  reported        \* ports whose status was printed

checkVars == <<count, print_flag, all_ports_up, unchecked>>
bootVars == <<devices, started, interface, checkVars, reported>>

BootPlaces == {"eal", "ports", "link", "links", "stack"}

InitBoot ==
  /\ main = "eal" /\ force_quit = FALSE
  /\ devices = {} /\ started = {} /\ interface = NoPort /\ reported = {}
  /\ count = 0 /\ print_flag = FALSE /\ all_ports_up = TRUE /\ unchecked = {}

\* the handler is installed once EAL is up; before that a signal kills
Signal ==
  /\ main # "eal" /\ ~ force_quit /\ force_quit' = TRUE
  /\ UNCHANGED <<main, bootVars>>

-----------------------------------------------------------------------------
(* EAL and the ports *)

InitEal ==
  /\ main = "eal" /\ main' = "ports" /\ devices' \in Devices
  /\ UNCHANGED <<force_quit, started, interface, checkVars, reported>>

\* rte_exit, when EAL, the pool or a step of a port's set-up fails
Exit ==
  /\ main = "eal" \/ (main = "ports" /\ devices # started)
  /\ main' = "exit"
  /\ UNCHANGED <<force_quit, bootVars>>

\* the first port becomes the interface, and it has to be port 0
InitPort ==
  LET port == Min(devices \ started)
  IN  /\ main = "ports" /\ devices # started
      /\ started' = started \union {port}
      /\ IF interface = NoPort /\ port # 0
         THEN main' = "exit" /\ UNCHANGED interface
         ELSE interface' = (IF interface = NoPort THEN port ELSE interface) /\ UNCHANGED main
      /\ UNCHANGED <<force_quit, devices, checkVars, reported>>

PortsDone ==
  /\ main = "ports" /\ devices = started /\ main' = "link"
  /\ UNCHANGED <<force_quit, bootVars>>

-----------------------------------------------------------------------------
(* check_all_ports_link_status *)

\* the function returns, and its locals are gone
CheckReturns ==
  /\ main' = "stack"
  /\ count' = 0 /\ print_flag' = FALSE /\ all_ports_up' = TRUE /\ unchecked' = {}

LinkRound ==
  /\ main = "link"
  /\ IF force_quit \/ count > MaxCheckTime
     THEN CheckReturns
     ELSE /\ main' = "links" /\ unchecked' = devices /\ all_ports_up' = TRUE
          /\ UNCHANGED <<count, print_flag>>
  /\ UNCHANGED <<force_quit, devices, started, interface, reported>>

(***************************************************************************)
(* One port: its link is "up" or "down", or cannot be read.  The round     *)
(* that prints looks at every port; any other ends at the first one that   *)
(* is down, port 1 excepted.                                               *)
(***************************************************************************)
LinkPort(link) ==
  LET port == Min(unchecked)
      ends == link = "down" /\ ~ print_flag /\ port # 1
  IN  /\ main = "links" /\ unchecked # {}
      /\ IF force_quit
         THEN CheckReturns /\ UNCHANGED reported
         ELSE /\ unchecked' = IF ends THEN {} ELSE unchecked \ {port}
              /\ all_ports_up' = (all_ports_up /\ link # "failed" /\ ~ ends)
              /\ reported' = IF print_flag THEN reported \union {port} ELSE reported
              /\ UNCHANGED <<main, count, print_flag>>
      /\ UNCHANGED <<force_quit, devices, started, interface>>

\* Mutation of LinkRoundEnd: the time is up one round later.
LinkRoundEndLate ==
  /\ main = "links" /\ unchecked = {}
  /\ IF print_flag
     THEN CheckReturns
     ELSE /\ main' = "link" /\ count' = count + 1
          /\ print_flag' = (all_ports_up \/ count = MaxCheckTime)
          /\ UNCHANGED <<all_ports_up, unchecked>>
  /\ UNCHANGED <<force_quit, devices, started, interface, reported>>

LinkRoundEnd ==
  /\ main = "links" /\ unchecked = {}
  /\ IF print_flag
     THEN CheckReturns
     ELSE /\ main' = "link" /\ count' = count + 1
          /\ print_flag' = (all_ports_up \/ count = MaxCheckTime - 1)
          /\ UNCHANGED <<all_ports_up, unchecked>>
  /\ UNCHANGED <<force_quit, devices, started, interface, reported>>

-----------------------------------------------------------------------------

\* net_stack_init(interfaces[0]) and arp_program_start
NetStackInit ==
  /\ main = "stack"
  /\ main' = IF interface = NoPort THEN "crashed" ELSE "start"
  /\ UNCHANGED <<force_quit, bootVars>>

Boot ==
  \/ InitEal \/ Exit \/ InitPort \/ PortsDone
  \/ LinkRound \/ LinkRoundEnd \/ \E link \in {"up", "down", "failed"} : LinkPort(link)
  \/ NetStackInit

(***************************************************************************)
(* "Check the link status of all ports in up to 9s, and print them         *)
(* finally" (main.c:87): unless a signal came, the check ends only after   *)
(* it has printed every port, also when a link never comes up and the time *)
(* runs out.                                                               *)
(***************************************************************************)
LinkReported ==
  main \notin {"eal", "ports", "link", "links", "exit"} /\ ~ force_quit => reported = devices
=============================================================================

---------------------------- MODULE Rendezvous ------------------------------
(***************************************************************************)
(* How a filter process finds a proxy process: named shared memory, which  *)
(* exists while some process has it open, and which carries two ports.     *)
(*                                                                         *)
(* A proxy opens the mapping, takes an event port (UDP) and a forward port *)
(* (TCP), each from the end of its range downwards, and then writes both   *)
(* ports: the size word first, the ports after it.  A filter opens the     *)
(* mapping and reads it once a step until the size word is right, or until *)
(* its time is up.  Processes come in any order, die at any time, and a    *)
(* new start of a program is another member of Proxy or Filter.  Nothing   *)
(* but the size word orders a reader after a writer: there is no lock.     *)
(*                                                                         *)
(* A process that could not open the mapping retries under the empty name  *)
(* (SharedMemory::Open(_name), _name is never set), which yields memory    *)
(* that nobody else sees: it is as if it had no mapping.                   *)
(***************************************************************************)
EXTENDS Naturals

CONSTANTS Proxy,   \* starts of the proxy program
          Filter,  \* starts of the filter program
          Other,   \* every other program that takes ports
          Nobody,
          MaxPort, \* the ports of each range are 1..MaxPort
          Steps    \* timeout_ms \div step_ms of WaitRead

ASSUME StartAssumption ==
  /\ Proxy \cap Filter = {}
  /\ Nobody \notin Proxy \cup {Other} /\ Other \notin Proxy
  /\ MaxPort \in Nat /\ Steps \in Nat

VARIABLES
  sized,    \* the size word of the mapping is that of sm_event_info
  info,     \* the sm_event_info in the mapping
  handles,  \* the processes that have a handle of the named mapping
  views,    \* those of them that can read and write it
  proxy,    \* proxy[p]: how far p's main is
  try,      \* try[p]: the port that p tries next, 0 past the last one
  mine,     \* mine[p]: the ports p listens on (ServerEvent, ServerTcp _port)
  evOwner,  \* evOwner[e]: who is bound to UDP port e
  fwOwners, \* fwOwners[t]: the proxies that listen on TCP port t
  filter,   \* filter[f]: how far f's main is
  sleeps,   \* sleeps[f]: steps that f has slept
  found     \* found[f]: the sm_event_info that f has read

vars == <<sized, info, handles, views, proxy, try, mine, evOwner, fwOwners,
          filter, sleeps, found>>

Port == 1..MaxPort

\* sm_event_info and, for the properties alone, who wrote it.
Info == [event : 0..MaxPort, forward : 0..MaxPort, by : Proxy \cup {Nobody}]
Blank == [event |-> 0, forward |-> 0, by |-> Nobody]

ProxyPhases == {"off", "event", "forward", "listening", "writing", "serving",
                "failed", "dead"}
FilterPhases == {"off", "reading", "copying", "sleeping", "found", "gaveup", "dead"}

Init == /\ sized = FALSE /\ info = Blank /\ handles = {} /\ views = {}
        /\ proxy = [p \in Proxy |-> "off"]
        /\ try = [p \in Proxy |-> MaxPort]
        /\ mine = [p \in Proxy |-> [event |-> 0, forward |-> 0]]
        /\ evOwner \in [Port -> {Nobody, Other}]
        /\ fwOwners = [t \in Port |-> {}]
        /\ filter = [f \in Filter |-> "off"]
        /\ sleeps = [f \in Filter |-> 0]
        /\ found = [f \in Filter |-> Blank]

proxyVars == <<proxy, try, mine, evOwner, fwOwners>>
filterVars == <<filter, sleeps, found>>

-----------------------------------------------------------------------------
\* Planted bugs: Open clears the memory; whoever ends takes the mapping along;
\* a taken port is tried again; half of the ports is written; the wait has no
\* end.
OpenClears(q) == /\ handles' = handles \cup {q} /\ views' = views \cup {q}
                 /\ sized' = FALSE /\ info' = Blank
ReleaseClears(q) == /\ handles' = handles \ {q} /\ views' = views \ {q}
                    /\ sized' = FALSE /\ info' = Blank
TryEventSamePort(p) ==
  /\ proxy[p] = "event" /\ evOwner[try[p]] = Nobody
  /\ evOwner' = [evOwner EXCEPT ![try[p]] = p]
  /\ mine' = [mine EXCEPT ![p].event = try[p]]
  /\ proxy' = [proxy EXCEPT ![p] = "forward"]
  /\ UNCHANGED <<sized, info, handles, views, try, fwOwners, filterVars>>
WriteInfoHalf(p) ==
  /\ proxy[p] = "writing" /\ proxy' = [proxy EXCEPT ![p] = "serving"]
  /\ info' = IF p \in views THEN [info EXCEPT !.event = mine[p].event, !.by = p]
                              ELSE info
  /\ UNCHANGED <<sized, handles, views, try, mine, evOwner, fwOwners, filterVars>>
AfterSleepForever(f) ==
  /\ filter[f] = "sleeping" /\ filter' = [filter EXCEPT ![f] = "reading"]
  /\ sleeps' = [sleeps EXCEPT ![f] = @ + 1]
  /\ UNCHANGED <<sized, info, handles, views, proxyVars, found>>

-----------------------------------------------------------------------------
\* SharedMemory::Open: creates the mapping or finds it, and may fail.  If only
\* the view fails the handle stays open: the tmp that is closed is another one.
Open(q) == /\ \/ UNCHANGED handles
              \/ handles' = handles \cup {q}
           /\ views' \in {views, views \cup ({q} \cap handles')}
           /\ UNCHANGED <<sized, info>>

\* The end of a process closes its handle; the last one to go takes the
\* mapping with it, and the next Open makes a new one, which is zero.
Release(q) ==
  /\ handles' = handles \ {q} /\ views' = views \ {q}
  /\ IF handles \subseteq {q} THEN sized' = FALSE /\ info' = Blank
                              ELSE UNCHANGED <<sized, info>>

-----------------------------------------------------------------------------
\* The proxy's main, one action per step that another process may notice.

ProxyStarts(p) ==
  /\ proxy[p] = "off" /\ proxy' = [proxy EXCEPT ![p] = "event"]
  /\ Open(p)
  /\ UNCHANGED <<try, mine, evOwner, fwOwners, filterVars>>

\* ServerEvent::Start, one turn of the loop: a taken port throws.
TryEvent(p) ==
  /\ proxy[p] = "event" /\ try[p] # 0
  /\ \/ /\ evOwner[try[p]] = Nobody
        /\ evOwner' = [evOwner EXCEPT ![try[p]] = p]
        /\ mine' = [mine EXCEPT ![p].event = try[p]]
        /\ proxy' = [proxy EXCEPT ![p] = "forward"]
        /\ try' = [try EXCEPT ![p] = MaxPort]
     \/ /\ evOwner[try[p]] # Nobody
        /\ try' = [try EXCEPT ![p] = @ - 1]
        /\ UNCHANGED <<evOwner, mine, proxy>>
  /\ UNCHANGED <<sized, info, handles, views, fwOwners, filterVars>>

\* ServerTcp::Start, one turn of the loop.  Both families bind or neither
\* does; which it is depends on programs that are not modelled and, because
\* asio sets SO_REUSEADDR, not even on whether another proxy has the port.
TryForward(p) ==
  /\ proxy[p] = "forward" /\ try[p] # 0
  /\ \/ /\ fwOwners' = [fwOwners EXCEPT ![try[p]] = @ \cup {p}]
        /\ mine' = [mine EXCEPT ![p].forward = try[p]]
        /\ proxy' = [proxy EXCEPT ![p] = "listening"]
        /\ try' = [try EXCEPT ![p] = MaxPort]
     \/ /\ try' = [try EXCEPT ![p] = @ - 1]
        /\ UNCHANGED <<fwOwners, mine, proxy>>
  /\ UNCHANGED <<sized, info, handles, views, evOwner, filterVars>>

\* No port is left: main waits for a key.  The handlers that Stop posts never
\* run, so an event port that was taken stays taken.
StartFails(p) ==
  /\ proxy[p] \in {"event", "forward"} /\ try[p] = 0
  /\ proxy' = [proxy EXCEPT ![p] = "failed"]
  /\ UNCHANGED <<sized, info, handles, views, try, mine, evOwner, fwOwners, filterVars>>

\* SharedMemory::Write, up to the size word.
WriteSize(p) ==
  /\ proxy[p] = "listening" /\ proxy' = [proxy EXCEPT ![p] = "writing"]
  /\ sized' = (sized \/ p \in views)
  /\ UNCHANGED <<info, handles, views, try, mine, evOwner, fwOwners, filterVars>>

\* The rest of SharedMemory::Write: the two ports are one aligned word.  main
\* serves whatever Write returned.
WriteInfo(p) ==
  /\ proxy[p] = "writing" /\ proxy' = [proxy EXCEPT ![p] = "serving"]
  /\ info' = IF p \in views
             THEN [event |-> mine[p].event, forward |-> mine[p].forward, by |-> p]
             ELSE info
  /\ UNCHANGED <<sized, handles, views, try, mine, evOwner, fwOwners, filterVars>>

\* The ports of a process that ends are free again.  mine is kept for the
\* properties, which compare it with what filters have read.
ProxyDies(p) ==
  /\ proxy[p] \notin {"off", "dead"} /\ proxy' = [proxy EXCEPT ![p] = "dead"]
  /\ evOwner' = [e \in Port |-> IF evOwner[e] = p THEN Nobody ELSE evOwner[e]]
  /\ fwOwners' = [t \in Port |-> fwOwners[t] \ {p}]
  /\ Release(p)
  /\ try' = [try EXCEPT ![p] = MaxPort]
  /\ UNCHANGED <<mine, filterVars>>

OtherBinds(e) ==
  /\ evOwner[e] = Nobody /\ evOwner' = [evOwner EXCEPT ![e] = Other]
  /\ UNCHANGED <<sized, info, handles, views, proxy, try, mine, fwOwners, filterVars>>

OtherCloses(e) ==
  /\ evOwner[e] = Other /\ evOwner' = [evOwner EXCEPT ![e] = Nobody]
  /\ UNCHANGED <<sized, info, handles, views, proxy, try, mine, fwOwners, filterVars>>

-----------------------------------------------------------------------------
\* The filter's main.

FilterStarts(f) ==
  /\ filter[f] = "off" /\ filter' = [filter EXCEPT ![f] = "reading"]
  /\ Open(f)
  /\ UNCHANGED <<proxyVars, sleeps, found>>

\* SharedMemory::Read, up to the size word; a wrong one means try again later.
ReadSize(f) ==
  /\ filter[f] = "reading"
  /\ filter' = [filter EXCEPT ![f] = IF f \in views /\ sized THEN "copying"
                                                              ELSE "sleeping"]
  /\ UNCHANGED <<sized, info, handles, views, proxyVars, sleeps, found>>

\* The rest of SharedMemory::Read.
ReadInfo(f) ==
  /\ filter[f] = "copying" /\ filter' = [filter EXCEPT ![f] = "found"]
  /\ found' = [found EXCEPT ![f] = info]
  /\ UNCHANGED <<sized, info, handles, views, proxyVars, sleeps>>

\* The end of WaitRead's loop.  Every Sleep takes a step or longer, so the
\* time may be up after any of them, and is up after Steps + 1 of them.
AfterSleep(f) ==
  /\ filter[f] = "sleeping"
  /\ sleeps' = [sleeps EXCEPT ![f] = @ + 1]
  /\ \/ filter' = [filter EXCEPT ![f] = "gaveup"]
     \/ sleeps[f] < Steps /\ filter' = [filter EXCEPT ![f] = "reading"]
  /\ UNCHANGED <<sized, info, handles, views, proxyVars, found>>

FilterDies(f) ==
  /\ filter[f] \notin {"off", "dead"} /\ filter' = [filter EXCEPT ![f] = "dead"]
  /\ Release(f)
  /\ sleeps' = [sleeps EXCEPT ![f] = 0] /\ found' = [found EXCEPT ![f] = Blank]
  /\ UNCHANGED proxyVars

-----------------------------------------------------------------------------
ProxyRuns(p) == \/ TryEvent(p) \/ TryForward(p) \/ StartFails(p)
                \/ WriteSize(p) \/ WriteInfo(p)
FilterRuns(f) == ReadSize(f) \/ ReadInfo(f) \/ AfterSleep(f)

Next == \/ \E p \in Proxy : ProxyStarts(p) \/ ProxyRuns(p) \/ ProxyDies(p)
        \/ \E f \in Filter : FilterStarts(f) \/ FilterRuns(f) \/ FilterDies(f)
        \/ \E e \in Port : OtherBinds(e) \/ OtherCloses(e)

Spec == Init /\ [][Next]_vars

\* A process that was started gets to run; that is all that is assumed.
FairSpec == /\ Spec
            /\ \A p \in Proxy : WF_vars(ProxyRuns(p))
            /\ \A f \in Filter : WF_vars(FilterRuns(f))

-----------------------------------------------------------------------------
TypeOK ==
  /\ sized \in BOOLEAN /\ info \in Info
  /\ handles \subseteq Proxy \cup Filter /\ views \subseteq handles
  /\ proxy \in [Proxy -> ProxyPhases] /\ try \in [Proxy -> 0..MaxPort]
  /\ mine \in [Proxy -> [event : 0..MaxPort, forward : 0..MaxPort]]
  /\ evOwner \in [Port -> Proxy \cup {Nobody, Other}]
  /\ fwOwners \in [Port -> SUBSET Proxy]
  /\ filter \in [Filter -> FilterPhases]
  /\ sleeps \in [Filter -> 0..Steps+1]
  /\ found \in [Filter -> Info]

\* p's Write is finished, and it went to the mapping that everyone shares.
Published(p) == proxy[p] = "serving" /\ p \in views

\* p's main is past both Starts, so its two servers are listening.
Up(p) == proxy[p] \in {"listening", "writing", "serving"}

\* What a filter has read (SharedMemory::Read) is what one proxy published,
\* never the event port of one and the forward port of another, although two
\* proxies may write at once and no lock is taken; and as long as that proxy
\* lives it owns the event port and listens on the forward port.
FoundIsServed ==
  \A f \in Filter : \A p \in Proxy :
    filter[f] = "found" /\ found[f].by = p =>
      /\ found[f].event = mine[p].event /\ found[f].forward = mine[p].forward
      /\ Up(p) => /\ evOwner[found[f].event] = p
                  /\ p \in fwOwners[found[f].forward]

\* A filter can read zeros as ports: the size word is written first
\* (SharedMemory.cpp:39-42).  But only on the first Write to a mapping: once a
\* proxy has finished one there, whoever dies or starts or writes again, no
\* filter reads ports that were never written.
BlankOnlyAtFirst ==
  [][\A f \in Filter : \A p \in Proxy :
       ReadInfo(f) /\ Published(p) => found'[f].by \in Proxy]_vars

\* A filter about to read, with a proxy that has finished its Write, finds
\* ports (that proxy's or, if it dies, whatever the mapping then holds): the
\* mapping that holds them lives at least as long as the filter's handle.
Finds ==
  \A f \in Filter : \A p \in Proxy :
    (filter[f] = "reading" /\ f \in views /\ Published(p))
      ~> (filter[f] \in {"found", "dead"})

\* The same as a property of steps: a filter that looks is not sent to sleep
\* when a proxy has finished its Write, whoever opens and closes the mapping
\* in between.
NeverTurnedAway ==
  [][\A f \in Filter : \A p \in Proxy :
       filter[f] = "reading" /\ f \in views /\ Published(p) => filter'[f] # "sleeping"]_vars

\* The steps that a main has left at most before it serves, has found or has
\* given up; a scan that takes a port starts the next one from the top.
StepsOfProxy(p) == CASE proxy[p] = "event" -> try[p] + MaxPort + 4
                     [] proxy[p] = "forward" -> try[p] + 3
                     [] proxy[p] = "listening" -> 2
                     [] proxy[p] = "writing" -> 1
                     [] OTHER -> 0
StepsOfFilter(f) == CASE filter[f] = "reading" -> 2 * (Steps - sleeps[f]) + 3
                      [] filter[f] = "sleeping" -> 2 * (Steps - sleeps[f]) + 2
                      [] filter[f] = "copying" -> 1
                      [] OTHER -> 0

\* A main that has started gets nearer to its end with every step of its own,
\* and no other process sets it back: neither does a port that is taken and
\* freed again during a scan, nor a mapping that comes and goes during a wait.
StartupShrinks ==
  [][/\ \A p \in Proxy : proxy[p] # "off" =>
          \/ UNCHANGED <<proxy[p], try[p]>>
          \/ proxy'[p] = "dead"
          \/ StepsOfProxy(p)' \in 0..StepsOfProxy(p) - 1
     /\ \A f \in Filter : filter[f] # "off" =>
          \/ UNCHANGED <<filter[f], sleeps[f]>>
          \/ filter'[f] = "dead"
          \/ StepsOfFilter(f)' \in 0..StepsOfFilter(f) - 1]_vars

\* Neither main hangs: the port scans end although other programs take and
\* free ports meanwhile, and WaitRead ends although nobody writes.
StartupEnds ==
  /\ \A p \in Proxy : (proxy[p] = "event") ~> (proxy[p] \in {"serving", "failed", "dead"})
  /\ \A f \in Filter : (filter[f] = "reading") ~> (filter[f] \in {"found", "gaveup", "dead"})
=============================================================================

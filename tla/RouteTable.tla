----------------------------- MODULE RouteTable -----------------------------
(***************************************************************************)
(* The routing table of a router (router/src/routingTable.c) in its paged   *)
(* memory (virtualMemory.c), used by two threads under tableMutex           *)
(* (forwarding.c): the listening thread, which learns and looks up, and the *)
(* main thread, which preloads the hosts of config.txt before the other     *)
(* exists and then walks the table once to advertise it.                    *)
(*                                                                          *)
(* A route takes exactly one page: a word with the destination, a word with *)
(* the next hop, and 0 for none.  The four bytes of a word share a page, so *)
(* a word costs one search of the TLB, at most one refill and one access.   *)
(***************************************************************************)
EXTENDS Mmu, SequencesExt

CONSTANTS
    Preload,        \* the host lines of config.txt: Seq([ip, hop])
    Ips, Hops       \* destinations and next hops the listening thread meets

Route == [ip : Nat \ {0}, hop : Nat \ {0}]

ASSUME RouteTableAssumption ==
    /\ Preload \in Seq(Route)
    /\ Ips \subseteq Nat \ {0}
    /\ Hops \subseteq Nat \ {0}

Threads == {"main", "listener"}
None    == NumPages             \* firstFreeIndex = -1

VARIABLES
    ram,            \* [Pages -> [ip, hop]]
    owner,          \* holder of tableMutex, or "nobody"
    pc,             \* what each thread is doing
    mem,            \* and how far its memory access has come
    frame,          \* the frame its translation gave
    call,           \* its call: [kind, ip, hop]
    idx,            \* its index in the table
    free,           \* firstFreeIndex of saveRoute
    reply,          \* what its last call returned
    booted,         \* host lines preloaded so far
    cursor,         \* index of sendInitialAdvertise, None + 1 once it is done
    advertised      \* destinations it has advertised

threadVars == <<pc, mem, frame, call, idx, free, reply>>
mainVars   == <<booted, cursor, advertised>>
vars       == <<mmuVars, ram, owner, threadVars, mainVars>>

NoCall == [kind |-> "none", ip |-> 0, hop |-> 0]
Done   == NumPages + 1

Init ==
    /\ InitMMU
    /\ ram = [p \in Pages |-> [ip |-> 0, hop |-> 0]]
    /\ owner = "nobody"
    /\ pc = [t \in Threads |-> "idle"]
    /\ mem = [t \in Threads |-> "search"]
    /\ frame = [t \in Threads |-> 0]
    /\ call = [t \in Threads |-> NoCall]
    /\ idx = [t \in Threads |-> 0]
    /\ free = [t \in Threads |-> None]
    /\ reply = [t \in Threads |-> 0]
    /\ booted = 0 /\ cursor = 0 /\ advertised = << >>

-----------------------------------------------------------------------------
(* Memory: translateAddress, one statement at a time.                       *)

\* The steps of routingTable.c that touch memory, and the page they touch.
Touching == {"find", "findHop", "save", "saveHop", "newIp", "newHop", "entry"}
Page(t) == IF pc[t] \in {"newIp", "newHop"} THEN free[t] ELSE idx[t]

Translating(t, stage) == pc[t] \in Touching /\ mem[t] = stage /\ Page(t) \in Pages

At(t, stage) ==
    /\ mem' = [mem EXCEPT ![t] = stage]
    /\ UNCHANGED <<ram, owner, pc, call, idx, free, reply, mainVars>>

TlbHit(t) ==
    /\ Translating(t, "search") /\ Hits(Page(t)) # {}
    /\ frame' = [frame EXCEPT ![t] = TlbFrame(Page(t))]
    /\ At(t, "access") /\ UNCHANGED mmuVars

TlbMiss(t) ==
    /\ Translating(t, "search") /\ Hits(Page(t)) = {}
    /\ At(t, "vpn") /\ UNCHANGED <<frame, mmuVars>>

Refill(t) ==
    \/ Translating(t, "vpn")   /\ FillVpn(Page(t)) /\ At(t, "pfn")   /\ UNCHANGED frame
    \/ Translating(t, "pfn")   /\ FillPfn(Page(t)) /\ At(t, "valid") /\ UNCHANGED frame
    \/ Translating(t, "valid") /\ FillValid        /\ At(t, "next")  /\ UNCHANGED frame
    \/ /\ Translating(t, "next") /\ UpdateTLB /\ At(t, "access")
       /\ frame' = [frame EXCEPT ![t] = PageTable[Page(t)]]

Translate(t) == TlbHit(t) \/ TlbMiss(t) \/ Refill(t)

-----------------------------------------------------------------------------
(* The calls, one word at a time.                                           *)

\* A word is accessed: step s, index i come next.
Accessing(t, step) == pc[t] = step /\ mem[t] = "access"
Word(t) == ram[frame[t]]

Then(t, step, i) ==
    /\ pc' = [pc EXCEPT ![t] = step]
    /\ idx' = [idx EXCEPT ![t] = i]
    /\ mem' = [mem EXCEPT ![t] = "search"]
    /\ UNCHANGED <<mmuVars, owner, frame, mainVars>>

Return(t, value) == Then(t, "unlock", 0) /\ reply' = [reply EXCEPT ![t] = value]

\* The whole of learnRoute found no such route: saveRoute.
ToSave(t) == Then(t, "save", 0) /\ free' = [free EXCEPT ![t] = None] /\ UNCHANGED reply

\* findRoute reads the destination of a page...
FindIp(t) ==
    /\ Accessing(t, "find")
    /\ \/ /\ Word(t).ip = call[t].ip
          /\ Then(t, "findHop", idx[t]) /\ UNCHANGED <<free, reply>>
       \/ /\ Word(t).ip # call[t].ip /\ idx[t] < NumPages - 1
          /\ Then(t, "find", idx[t] + 1) /\ UNCHANGED <<free, reply>>
       \/ /\ Word(t).ip # call[t].ip /\ idx[t] = NumPages - 1
          /\ IF call[t].kind = "learn" THEN ToSave(t) ELSE Return(t, 0) /\ UNCHANGED free
    /\ UNCHANGED <<ram, call>>

\* ...and the next hop of the page that matched.
FindHop(t) ==
    /\ Accessing(t, "findHop")
    /\ \/ /\ call[t].kind # "learn"
          /\ Return(t, Word(t).hop) /\ UNCHANGED free
       \/ /\ call[t].kind = "learn" /\ Word(t).hop = call[t].hop
          /\ Return(t, 0) /\ UNCHANGED free
       \/ /\ call[t].kind = "learn" /\ Word(t).hop # call[t].hop
          /\ ToSave(t)
    /\ UNCHANGED <<ram, call>>

\* Mutant of Saved: isNew is forgotten.
SavedSilently(t) == Return(t, 0)

\* learnRoute says that the route is news; the boot does not ask.
Saved(t) == IF call[t].kind = "learn" THEN Return(t, 1) ELSE Then(t, "unlock", 0) /\ UNCHANGED reply

\* Mutant of FirstFree: the last free page instead of the first.
LastFree(t) == IF Word(t).ip = 0 THEN idx[t] ELSE free[t]

FirstFree(t) == IF Word(t).ip = 0 /\ free[t] = None THEN idx[t] ELSE free[t]

\* saveRoute looks for the destination and for the first free page; the caller
\* does not look at what it returns when the table is full.
SaveScan(t) ==
    /\ Accessing(t, "save")
    /\ \/ /\ Word(t).ip = call[t].ip
          /\ Then(t, "saveHop", idx[t]) /\ UNCHANGED <<free, reply>>
       \/ /\ Word(t).ip # call[t].ip /\ idx[t] < NumPages - 1
          /\ free' = [free EXCEPT ![t] = FirstFree(t)]
          /\ Then(t, "save", idx[t] + 1) /\ UNCHANGED reply
       \/ /\ Word(t).ip # call[t].ip /\ idx[t] = NumPages - 1 /\ FirstFree(t) # None
          /\ free' = [free EXCEPT ![t] = FirstFree(t)]
          /\ Then(t, "newIp", 0) /\ UNCHANGED reply
       \/ /\ Word(t).ip # call[t].ip /\ idx[t] = NumPages - 1 /\ FirstFree(t) = None
          /\ Saved(t) /\ UNCHANGED free
    /\ UNCHANGED <<ram, call>>

WriteHop(t) ==
    /\ Accessing(t, "saveHop") \/ Accessing(t, "newHop")
    /\ ram' = [ram EXCEPT ![frame[t]].hop = call[t].hop]
    /\ Saved(t)
    /\ UNCHANGED <<free, call>>

WriteIp(t) ==
    /\ Accessing(t, "newIp")
    /\ ram' = [ram EXCEPT ![frame[t]].ip = call[t].ip]
    /\ Then(t, "newHop", 0)
    /\ UNCHANGED <<free, reply, call>>

\* getRouteIp: beyond the last page, or a page without a route, is the end.
Entry(t) ==
    \/ /\ pc[t] = "entry" /\ idx[t] = NumPages
       /\ Return(t, 0) /\ UNCHANGED call
    \/ /\ Accessing(t, "entry") /\ Word(t).ip = 0
       /\ Return(t, 0) /\ UNCHANGED call
    \/ /\ Accessing(t, "entry") /\ Word(t).ip # 0 /\ call[t].kind = "entryIp"
       /\ Return(t, Word(t).ip) /\ UNCHANGED call
    \/ /\ Accessing(t, "entry") /\ Word(t).ip # 0 /\ call[t].kind = "entryHop"
       /\ call' = [call EXCEPT ![t].ip = Word(t).ip]
       /\ Then(t, "find", 0) /\ UNCHANGED reply

EntryOf(t) == Entry(t) /\ UNCHANGED <<ram, free>>

Access(t) == FindIp(t) \/ FindHop(t) \/ SaveScan(t) \/ WriteHop(t) \/ WriteIp(t) \/ EntryOf(t)

-----------------------------------------------------------------------------
(* The threads.                                                             *)

Begin(t, step, c, i) ==
    /\ pc[t] = "idle"
    /\ pc' = [pc EXCEPT ![t] = step]
    /\ call' = [call EXCEPT ![t] = c]
    /\ idx' = [idx EXCEPT ![t] = i]
    /\ free' = [free EXCEPT ![t] = None]
    /\ UNCHANGED <<mmuVars, ram, owner, mem, frame, reply, cursor, advertised>>

\* parseConfigAndPreload: one saveRoute per host line, without the mutex.
PreloadHost ==
    /\ booted < Len(Preload)
    /\ LET r == Preload[booted + 1] IN Begin("main", "save", [kind |-> "preload", ip |-> r.ip, hop |-> r.hop], 0)
    /\ booted' = booted + 1

\* sendInitialAdvertise, which starts after the listening thread.
Booted == booted = Len(Preload) /\ (pc["main"] # "idle" => call["main"].kind # "preload")

\* Mutant of AdvertiseNext: the index starts at 1.
AdvertiseFromOne ==
    /\ Booted /\ cursor < Done
    /\ Begin("main", "lock", [kind |-> "entryIp", ip |-> 0, hop |-> 0], Min({cursor + 1, NumPages}))
    /\ UNCHANGED booted

AdvertiseNext ==
    /\ Booted /\ cursor < Done
    /\ Begin("main", "lock", [kind |-> "entryIp", ip |-> 0, hop |-> 0], cursor)
    /\ UNCHANGED booted

\* learnRoute, the lookup of a DATA frame, and sendTableToSocket.
LearnRoute ==
    /\ Booted
    /\ \E ip \in Ips, hop \in Hops : Begin("listener", "lock", [kind |-> "learn", ip |-> ip, hop |-> hop], 0)
    /\ UNCHANGED booted

LookUp ==
    /\ Booted
    /\ \E ip \in Ips : Begin("listener", "lock", [kind |-> "find", ip |-> ip, hop |-> 0], 0)
    /\ UNCHANGED booted

SendTable ==
    /\ Booted
    /\ \E i \in 0 .. NumPages : Begin("listener", "lock", [kind |-> "entryHop", ip |-> 0, hop |-> 0], i)
    /\ UNCHANGED booted

\* Mutant of Lock: the mutex is not taken into account.
LockAnyway(t) ==
    /\ pc[t] = "lock"
    /\ owner' = t
    /\ pc' = [pc EXCEPT ![t] = IF call[t].kind \in {"entryIp", "entryHop"} THEN "entry" ELSE "find"]
    /\ UNCHANGED <<mmuVars, ram, mem, frame, call, idx, free, reply, mainVars>>

Lock(t) ==
    /\ pc[t] = "lock" /\ owner = "nobody"
    /\ owner' = t
    /\ pc' = [pc EXCEPT ![t] = IF call[t].kind \in {"entryIp", "entryHop"} THEN "entry" ELSE "find"]
    /\ UNCHANGED <<mmuVars, ram, mem, frame, call, idx, free, reply, mainVars>>

\* Mutant of Unlock: a call that found nothing returns without unlocking.
UnlockIfFound(t) ==
    /\ pc[t] = "unlock"
    /\ owner' = IF call[t].kind = "preload" \/ reply[t] = 0 THEN owner ELSE "nobody"
    /\ pc' = [pc EXCEPT ![t] = "idle"]
    /\ call' = [call EXCEPT ![t] = NoCall]
    /\ free' = [free EXCEPT ![t] = None]
    /\ frame' = [frame EXCEPT ![t] = 0]
    /\ IF call[t].kind # "entryIp"
       THEN UNCHANGED <<cursor, advertised>>
       ELSE IF reply[t] = 0
            THEN cursor' = Done /\ UNCHANGED advertised
            ELSE cursor' = cursor + 1 /\ advertised' = Append(advertised, reply[t])
    /\ UNCHANGED <<mmuVars, ram, mem, idx, reply, booted>>

\* The call returns; the locals of the thread are gone.
Unlock(t) ==
    /\ pc[t] = "unlock"
    /\ owner' = IF call[t].kind = "preload" THEN owner ELSE "nobody"
    /\ pc' = [pc EXCEPT ![t] = "idle"]
    /\ call' = [call EXCEPT ![t] = NoCall]
    /\ free' = [free EXCEPT ![t] = None]
    /\ frame' = [frame EXCEPT ![t] = 0]
    /\ IF call[t].kind # "entryIp"
       THEN UNCHANGED <<cursor, advertised>>
       ELSE IF reply[t] = 0
            THEN cursor' = Done /\ UNCHANGED advertised
            ELSE cursor' = cursor + 1 /\ advertised' = Append(advertised, reply[t])
    /\ UNCHANGED <<mmuVars, ram, mem, idx, reply, booted>>

Work(t) == Lock(t) \/ Translate(t) \/ Access(t) \/ Unlock(t)

Next ==
    \/ PreloadHost \/ AdvertiseNext
    \/ LearnRoute \/ LookUp \/ SendTable
    \/ \E t \in Threads : Work(t)

Spec == Init /\ [][Next]_vars

\* A thread that runs goes on; the main thread does not stop half-way; a
\* waiter gets a mutex that is freed again and again.
FairSpec ==
    /\ Spec
    /\ WF_vars(PreloadHost) /\ WF_vars(AdvertiseNext)
    /\ \A t \in Threads : WF_vars(Translate(t) \/ Access(t) \/ Unlock(t)) /\ SF_vars(Lock(t))

-----------------------------------------------------------------------------
(* Properties.                                                              *)

\* The types of the variables.
TypeOK ==
    /\ MmuTypeOK
    /\ ram \in [Pages -> [ip : Nat, hop : Nat]]
    /\ owner \in Threads \cup {"nobody"}
    /\ pc \in [Threads -> Touching \cup {"idle", "lock", "unlock"}]
    /\ mem \in [Threads -> {"search", "vpn", "pfn", "valid", "next", "access"}]
    /\ frame \in [Threads -> Pages]
    /\ call \in [Threads -> [kind : {"none", "preload", "learn", "find", "entryIp", "entryHop"}, ip : Nat, hop : Nat]]
    /\ idx \in [Threads -> 0 .. NumPages]
    /\ free \in [Threads -> 0 .. NumPages]
    /\ reply \in [Threads -> Nat]
    /\ booted \in 0 .. Len(Preload)
    /\ cursor \in 0 .. Done
    /\ advertised \in Seq(Nat)

\* "para no corromper la MMU" (README.md:52): while no thread is at work, the
\* TLB agrees with the page table and maps no page twice, whatever calls the
\* two threads made before.
MmuIntact == owner = "nobody" /\ Booted => TlbCoherent

\* The table has no holes and no destination twice: getRouteIp's "ya no hay
\* más" really is the end (routingTable.h), and an update reaches the only copy.
Compact ==
    /\ \A p, q \in Pages : p < q /\ ram[q].ip # 0 => ram[p].ip # 0
    /\ \A p, q \in Pages : ram[p].ip = ram[q].ip /\ ram[p].ip # 0 => p = q

\* sendInitialAdvertise walks a table that grows under it, by index and with
\* the mutex released between two routes: it still advertises every host of
\* config.txt (forwarding.h:16-18), and no destination twice.
AdvertisesHosts ==
    /\ \A i, j \in DOMAIN advertised : advertised[i] = advertised[j] => i = j
    /\ cursor = Done =>
         \A i \in DOMAIN Preload : Contains(advertised, Preload[i].ip) \/ i > NumPages

\* The initial walk ends, though the listening thread keeps on learning and
\* both wait for one mutex.
WalkEnds == <>(cursor = Done)

\* The routes in the table: a new one exists from the moment its next hop is
\* written.
Routes == [i \in {k \in 1 .. NumPages : ram[k - 1].hop # 0} |-> ram[i - 1]]

\* Calls take effect at once: the table and its mutex implement RouteStore.
Store == INSTANCE RouteStore WITH
    Ips <- Ips \cup {Preload[i].ip : i \in DOMAIN Preload},
    Hops <- Hops \cup {Preload[i].hop : i \in DOMAIN Preload},
    Capacity <- NumPages,
    routes <- Routes

ImplementsStore == Store!Spec
=============================================================================

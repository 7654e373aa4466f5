-------------------------- MODULE RouteTable_proofs --------------------------
(* Theorems about RouteTable, for every size of the table and of the TLB,    *)
(* every config.txt and every route that the listening thread meets; and that *)
(* it implements RouteStore.                                                 *)
EXTENDS RouteTable, MinTheorems, SequenceTheorems, TLAPS

\* A thread that works is inside a call of routingTable.c.
Working(t) == pc[t] \in Touching \cup {"unlock"}

\* One thread at a time works: the one that has the mutex or, before the
\* listening thread exists, the main thread without it.
MutexInv ==
    /\ \A t \in Threads : Working(t) => owner = t \/ call[t].kind = "preload"
    /\ \A t \in Threads : owner = t => Working(t) /\ call[t].kind # "preload"
    /\ ~ Booted => pc["listener"] = "idle" /\ cursor = 0

Saves == {"save", "saveHop", "newIp", "newHop"}

\* What a thread is doing is part of its call, and its locals are in range.
CallInv(t) ==
    /\ pc[t] = "idle" => call[t] = NoCall
    /\ pc[t] # "idle" => call[t].kind \in IF t = "main" THEN {"preload", "entryIp"}
                                          ELSE {"learn", "find", "entryHop"}
    /\ pc[t] = "lock" => call[t].kind # "preload"
    /\ pc[t] = "entry" => call[t].kind \in {"entryIp", "entryHop"}
    /\ pc[t] \in {"find", "findHop"} => call[t].kind \in {"learn", "find", "entryHop"} /\ call[t].ip # 0
    /\ pc[t] \in Saves => call[t].kind \in {"preload", "learn"}
    /\ call[t].kind \in {"preload", "learn"} => call[t].ip # 0 /\ call[t].hop # 0
    /\ call[t].kind \in {"learn", "find"} => call[t].ip \in Ips
    /\ call[t].kind = "learn" => call[t].hop \in Hops
    /\ pc[t] \in {"find", "findHop", "save", "saveHop"} => idx[t] \in Pages
    /\ pc[t] \in {"newIp", "newHop"} => free[t] \in Pages
    /\ mem[t] # "search" => pc[t] \in Touching /\ Page(t) \in Pages
    /\ pc[t] = "lock" /\ call[t].kind \in {"learn", "find"} => idx[t] = 0

\* No page has two slots, and a slot agrees with the page table unless a
\* refill has not come to its frame yet; a refill fills the victim with a page
\* that no other slot holds; an access goes to the frame of its own page.
MmuInv ==
    /\ \A i, j \in Slots : tlb[i].valid /\ tlb[j].valid /\ tlb[i].vpn = tlb[j].vpn => i = j
    /\ \A i \in Slots : tlb[i].valid => \/ tlb[i].pfn = tlb[i].vpn
                                        \/ i = tlbNextVictim /\ \E t \in Threads : mem[t] = "pfn"
    /\ \A t \in Threads :
          /\ mem[t] = "vpn" => \A i \in Slots : tlb[i].valid => tlb[i].vpn # Page(t)
          /\ mem[t] \in {"pfn", "valid", "next"} =>
                /\ tlb[tlbNextVictim].vpn = Page(t)
                /\ \A i \in Slots \ {tlbNextVictim} : tlb[i].valid => tlb[i].vpn # Page(t)
          /\ mem[t] = "valid" => tlb[tlbNextVictim].pfn = Page(t)
          /\ mem[t] = "access" => frame[t] = Page(t)

\* p is the first page without a route.
FirstFreePage(p) == ram[p].ip = 0 /\ \A q \in Pages : q < p => ram[q].ip # 0

\* What a search has found out about the table so far.
ScanInv(t) ==
    /\ pc[t] \in {"find", "save"} => \A q \in Pages : q < idx[t] => ram[q].ip # call[t].ip
    /\ pc[t] \in {"findHop", "saveHop"} => ram[idx[t]].ip = call[t].ip
    /\ pc[t] = "save" => IF free[t] = None THEN \A q \in Pages : q < idx[t] => ram[q].ip # 0
                         ELSE free[t] < idx[t] /\ FirstFreePage(free[t])
    /\ pc[t] = "newIp" => FirstFreePage(free[t]) /\ \A q \in Pages : ram[q].ip # call[t].ip
    /\ pc[t] = "newHop" => /\ ram[free[t]] = [ip |-> call[t].ip, hop |-> 0]
                           /\ \A q \in Pages : free[t] < q => ram[q].ip = 0
    /\ pc[t] \in Saves /\ call[t].kind = "learn" =>
          \A q \in Pages : ram[q].ip = call[t].ip => ram[q].hop # call[t].hop

\* A page has a next hop if it has a destination, but for the one being written.
TableInv ==
    /\ Compact
    /\ \A p \in Pages : ram[p].ip = 0 => ram[p].hop = 0
    /\ \A p \in Pages : ram[p].ip # 0 /\ ram[p].hop = 0 =>
          \E t \in Threads : pc[t] = "newHop" /\ free[t] = p

Preloading == pc["main"] # "idle" /\ call["main"].kind = "preload"

\* A line of config.txt is in the table, or there was no room for it.
Stored(i) == i > NumPages \/ \E p \in Pages : ram[p].ip = Preload[i].ip

\* The boot takes at most one page per line.
BootInv ==
    /\ Preloading => /\ booted # 0
                     /\ call["main"].ip = Preload[booted].ip
                     /\ call["main"].hop = Preload[booted].hop
    /\ ~ Booted => \A p \in Pages : ram[p].ip # 0 => p < booted
    /\ Preloading /\ pc["main"] \in {"save", "newIp"} =>
          \A p \in Pages : ram[p].ip # 0 => p < booted - 1
    /\ \A i \in 1 .. booted :
          Stored(i) \/ (i = booted /\ Preloading /\ pc["main"] \in {"save", "newIp"})

\* The walk has advertised the pages below its cursor, and a page below it
\* never changes its destination.
WalkInv ==
    /\ cursor # Done => /\ Len(advertised) = cursor
                        /\ \A k \in 1 .. cursor : /\ advertised[k] = ram[k - 1].ip
                                                  /\ ram[k - 1].ip # 0
    /\ call["main"].kind = "entryIp" =>
          /\ cursor # Done /\ Booted
          /\ pc["main"] \in {"lock", "entry"} => idx["main"] = cursor
          /\ pc["main"] = "unlock" /\ reply["main"] = 0 => cursor = NumPages \/ ram[cursor].ip = 0
          /\ pc["main"] = "unlock" /\ reply["main"] # 0 =>
                cursor \in Pages /\ reply["main"] = ram[cursor].ip
    /\ AdvertisesHosts

Calls == \A t \in Threads : CallInv(t)
Scans == \A t \in Threads : ScanInv(t)

Inv == TypeOK /\ MutexInv /\ Calls /\ MmuInv /\ Scans /\ TableInv /\ BootInv /\ WalkInv

-----------------------------------------------------------------------------
(* What the steps do to the threads.                                        *)

Steps  == Touching \cup {"idle", "lock", "unlock"}
Stages == {"search", "vpn", "pfn", "valid", "next", "access"}
Kinds  == {"none", "preload", "learn", "find", "entryIp", "entryHop"}

\* The parts of TypeOK.
ThreadTypes ==
    /\ pc \in [Threads -> Steps]
    /\ mem \in [Threads -> Stages]
    /\ frame \in [Threads -> Pages]
    /\ call \in [Threads -> [kind : Kinds, ip : Nat, hop : Nat]]
    /\ idx \in [Threads -> 0 .. NumPages]
    /\ free \in [Threads -> 0 .. NumPages]
    /\ reply \in [Threads -> Nat]

SharedTypes ==
    /\ MmuTypeOK
    /\ ram \in [Pages -> [ip : Nat, hop : Nat]]
    /\ owner \in Threads \cup {"nobody"}

MainTypes ==
    /\ booted \in 0 .. Len(Preload)
    /\ cursor \in 0 .. Done
    /\ advertised \in Seq(Nat)

LEMMA TypeParts == TypeOK <=> ThreadTypes /\ SharedTypes /\ MainTypes
BY DEF TypeOK, ThreadTypes, SharedTypes, MainTypes, Steps, Stages, Kinds

LEMMA TypePartsNext == ThreadTypes' /\ SharedTypes' /\ MainTypes' => TypeOK'
BY DEF TypeOK, ThreadTypes, SharedTypes, MainTypes, Steps, Stages, Kinds

\* A step of t leaves the other thread's program counter and locals alone.
Others(t) ==
    \A u \in Threads \ {t} :
        /\ pc'[u] = pc[u] /\ mem'[u] = mem[u] /\ frame'[u] = frame[u] /\ call'[u] = call[u]
        /\ idx'[u] = idx[u] /\ free'[u] = free[u] /\ reply'[u] = reply[u]

\* The numbers of pages, and the lines of config.txt.
LEMMA Constants ==
    /\ NumPages \in Nat \ {0} /\ TlbSize \in Nat \ {0}
    /\ \A p : p \in Pages <=> p \in Nat /\ p < NumPages
    /\ \A p \in Pages : PageTable[p] = p
    /\ Len(Preload) \in Nat /\ DOMAIN Preload = 1 .. Len(Preload)
    /\ \A i \in 1 .. Len(Preload) : /\ Preload[i].ip \in Nat \ {0} /\ Preload[i].hop \in Nat \ {0}
                                    /\ Preload[i] = [ip |-> Preload[i].ip, hop |-> Preload[i].hop]
    /\ "main" \in Threads /\ "listener" \in Threads
<1>1. NumPages \in Nat \ {0} /\ TlbSize \in Nat \ {0}
  BY MmuAssumption
<1>2. \A p : p \in Pages <=> p \in Nat /\ p < NumPages
  BY <1>1 DEF Pages
<1>3. \A p \in Pages : PageTable[p] = p
  BY DEF PageTable
<1>4. Preload \in Seq(Route)
  BY RouteTableAssumption
<1>5. \A i \in 1 .. Len(Preload) : Preload[i] \in Route
  BY <1>4
<1>6. Len(Preload) \in Nat /\ DOMAIN Preload = 1 .. Len(Preload)
  BY <1>4
<1>7. \A r \in Route : r.ip \in Nat \ {0} /\ r.hop \in Nat \ {0} /\ r = [ip |-> r.ip, hop |-> r.hop]
  BY DEF Route
<1> QED
  BY <1>1, <1>2, <1>3, <1>5, <1>6, <1>7 DEF Threads

\* What the listening thread meets is never 0, which stands for no route.
LEMMA MetIsPositive ==
    /\ \A ip \in Ips : ip \in Nat \ {0}
    /\ \A hop \in Hops : hop \in Nat \ {0}
BY RouteTableAssumption

\* Then moves the thread, and nothing else.
LEMMA ThenMoves ==
    ASSUME TypeOK, NEW t \in Threads, NEW step \in Steps, NEW i \in 0 .. NumPages, Then(t, step, i)
    PROVE  /\ pc' \in [Threads -> Steps] /\ mem' \in [Threads -> Stages]
           /\ idx' \in [Threads -> 0 .. NumPages]
           /\ pc'[t] = step /\ idx'[t] = i /\ mem'[t] = "search"
           /\ \A u \in Threads \ {t} : pc'[u] = pc[u] /\ mem'[u] = mem[u] /\ idx'[u] = idx[u]
           /\ UNCHANGED <<mmuVars, owner, frame, mainVars>>
<1>1. pc \in [Threads -> Steps] /\ mem \in [Threads -> Stages] /\ idx \in [Threads -> 0 .. NumPages]
  BY TypeParts DEF ThreadTypes
<1> QED
  BY <1>1 DEF Then, Stages

\* The thread that works is alone: the other one is idle or waits for the mutex.
LEMMA Alone ==
    ASSUME Inv, NEW t \in Threads, Working(t)
    PROVE  \A u \in Threads \ {t} : ~ Working(u) /\ mem[u] = "search" /\ owner # u
<1>1. \A u \in Threads : Working(u) => owner = u \/ (u = "main" /\ ~ Booted)
  BY DEF Inv, MutexInv, Calls, CallInv, Booted, Working, Touching, Threads
<1>2. ~ Booted => ~ Working("listener") /\ owner # "main"
  <2>1. ~ Booted /\ owner = "main" => call["main"].kind = "preload"
    BY DEF Inv, MutexInv, Calls, CallInv, WalkInv, Working, Touching, Threads
  <2> QED
    BY <2>1 DEF Inv, MutexInv, Working, Touching, Threads
<1>3. \A u \in Threads \ {t} : ~ Working(u)
  BY <1>1, <1>2 DEF Threads
<1>4. \A u \in Threads : ~ Working(u) => mem[u] = "search" /\ owner # u
  BY DEF Inv, Calls, CallInv, Working, MutexInv
<1> QED
  BY <1>3, <1>4

-----------------------------------------------------------------------------
(* Translation: the TLB.                                                    *)

\* A translation touches neither the table nor the calls.
LEMMA TranslationStays ==
    ASSUME Inv, NEW t \in Threads, NEW stage \in Stages,
           pc[t] \in Touching, Page(t) \in Pages, At(t, stage),
           MmuTypeOK', frame' \in [Threads -> Pages], MmuInv'
    PROVE  Inv'
<1> USE DEF At, mainVars
<1>1. /\ mem' \in [Threads -> Stages] /\ mem'[t] = stage
      /\ \A u \in Threads \ {t} : mem'[u] = mem[u]
  BY TypeParts DEF Inv, ThreadTypes
<1>2. TypeOK'
  <2>1. ThreadTypes'
    BY <1>1, TypeParts DEF Inv, ThreadTypes
  <2>2. SharedTypes' /\ MainTypes'
    BY TypeParts DEF Inv, SharedTypes, MainTypes
  <2> QED
    BY <2>1, <2>2, TypePartsNext
<1>3. MutexInv'
  BY DEF Inv, MutexInv, Working, Booted
<1>4. Calls'
  BY <1>1 DEF Inv, Calls, CallInv, Page
<1>5. Scans'
  BY DEF Inv, Scans, ScanInv, FirstFreePage
<1>6. TableInv'
  BY DEF Inv, TableInv, Compact
<1>7. BootInv'
  BY DEF Inv, BootInv, Booted, Preloading, Stored
<1>8. WalkInv'
  BY DEF Inv, WalkInv, AdvertisesHosts, Booted
<1> QED
  BY <1>2, <1>3, <1>4, <1>5, <1>6, <1>7, <1>8 DEF Inv

\* The stages of the threads after one of them has moved on, while the other
\* one does not translate.
LEMMA StageMoves ==
    ASSUME Inv, NEW t \in Threads, NEW stage \in Stages, pc[t] \in Touching, At(t, stage)
    PROVE  /\ mem'[t] = stage
           /\ \A u \in Threads \ {t} : mem'[u] = "search" /\ mem[u] = "search"
           /\ UNCHANGED Page(t)
           /\ tlbNextVictim \in Slots /\ tlb \in [Slots -> [valid : BOOLEAN, vpn : Pages, pfn : Pages]]
<1>1. mem \in [Threads -> Stages] /\ MmuTypeOK
  BY TypeParts DEF Inv, ThreadTypes, SharedTypes
<1>2. \A u \in Threads \ {t} : mem[u] = "search"
  BY Alone DEF Working
<1> QED
  BY <1>1, <1>2 DEF At, Page, MmuTypeOK

LEMMA TlbHitKeepsInv ==
    ASSUME Inv, NEW t \in Threads, TlbHit(t)
    PROVE  Inv'
<1>1. /\ pc[t] \in Touching /\ Page(t) \in Pages /\ mem[t] = "search"
      /\ At(t, "access") /\ UNCHANGED mmuVars
      /\ frame' = [frame EXCEPT ![t] = TlbFrame(Page(t))] /\ Hits(Page(t)) # {}
  BY DEF TlbHit, Translating
<1>2. /\ mem'[t] = "access"
      /\ \A u \in Threads \ {t} : mem'[u] = "search" /\ mem[u] = "search"
      /\ UNCHANGED Page(t)
  BY <1>1, StageMoves DEF Stages
<1>3. Min(Hits(Page(t))) \in Hits(Page(t))
  <2>1. Hits(Page(t)) \subseteq Nat
    BY Constants DEF Hits, Slots
  <2> QED
    BY <1>1, <2>1, MinIsMember
<1>4. TlbFrame(Page(t)) = Page(t)
  BY <1>1, <1>2, <1>3 DEF Inv, MmuInv, TlbFrame, Hits
<1>5. frame \in [Threads -> Pages] /\ MmuTypeOK
  BY TypeParts DEF Inv, ThreadTypes, SharedTypes
<1>6. frame' \in [Threads -> Pages] /\ frame'[t] = Page(t)
  BY <1>1, <1>4, <1>5
<1>7. MmuInv'
  BY <1>1, <1>2, <1>6 DEF Inv, MmuInv, mmuVars
<1>8. MmuTypeOK'
  BY <1>1, <1>5 DEF MmuTypeOK, mmuVars
<1> QED
  BY <1>1, <1>6, <1>7, <1>8, TranslationStays DEF Stages

LEMMA TlbMissKeepsInv ==
    ASSUME Inv, NEW t \in Threads, TlbMiss(t)
    PROVE  Inv'
<1>1. /\ pc[t] \in Touching /\ Page(t) \in Pages /\ mem[t] = "search"
      /\ At(t, "vpn") /\ UNCHANGED <<frame, mmuVars>> /\ Hits(Page(t)) = {}
  BY DEF TlbMiss, Translating
<1>2. /\ mem'[t] = "vpn"
      /\ \A u \in Threads \ {t} : mem'[u] = "search" /\ mem[u] = "search"
      /\ UNCHANGED Page(t)
  BY <1>1, StageMoves DEF Stages
<1>3. \A i \in Slots : tlb[i].valid => tlb[i].vpn # Page(t)
  BY <1>1 DEF Hits
<1>4. MmuInv'
  BY <1>1, <1>2, <1>3 DEF Inv, MmuInv, mmuVars
<1>5. MmuTypeOK' /\ frame' \in [Threads -> Pages]
  BY <1>1, TypeParts DEF Inv, ThreadTypes, SharedTypes, MmuTypeOK, mmuVars
<1> QED
  BY <1>1, <1>4, <1>5, TranslationStays DEF Stages

\* The four statements of a refill: after each the victim holds a little more.
LEMMA RefillKeepsInv ==
    ASSUME Inv, NEW t \in Threads, Refill(t)
    PROVE  Inv'
<1>1. pc[t] \in Touching /\ Page(t) \in Pages
  BY DEF Refill, Translating
<1>2. frame \in [Threads -> Pages] /\ PageTable[Page(t)] = Page(t)
  BY <1>1, TypeParts, Constants DEF Inv, ThreadTypes
<1> DEFINE victim == tlbNextVictim
           RefillStep(stage, next) == mem[t] = stage /\ At(t, next)
<1>3. ASSUME RefillStep("vpn", "pfn"), FillVpn(Page(t)), UNCHANGED frame
      PROVE  Inv'
  <2>1. /\ mem'[t] = "pfn"
        /\ \A u \in Threads \ {t} : mem'[u] = "search" /\ mem[u] = "search"
        /\ UNCHANGED Page(t)
        /\ victim \in Slots /\ tlb \in [Slots -> [valid : BOOLEAN, vpn : Pages, pfn : Pages]]
    BY <1>1, <1>3, StageMoves DEF Stages
  <2>2. /\ tlb' \in [Slots -> [valid : BOOLEAN, vpn : Pages, pfn : Pages]] /\ victim' = victim
        /\ tlb'[victim].vpn = Page(t)
        /\ \A i \in Slots \ {victim} : tlb'[i] = tlb[i]
    BY <1>1, <1>3, <2>1 DEF FillVpn
  <2>3. \A i \in Slots : tlb[i].valid => tlb[i].vpn # Page(t)
    BY <1>3 DEF Inv, MmuInv
  <2>4. MmuInv'
    BY <2>1, <2>2, <2>3 DEF Inv, MmuInv
  <2> QED
    BY <1>1, <1>2, <1>3, <2>1, <2>2, <2>4, TranslationStays DEF Stages, MmuTypeOK
<1>4. ASSUME RefillStep("pfn", "valid"), FillPfn(Page(t)), UNCHANGED frame
      PROVE  Inv'
  <2>1. /\ mem'[t] = "valid"
        /\ \A u \in Threads \ {t} : mem'[u] = "search" /\ mem[u] = "search"
        /\ UNCHANGED Page(t)
        /\ victim \in Slots /\ tlb \in [Slots -> [valid : BOOLEAN, vpn : Pages, pfn : Pages]]
    BY <1>1, <1>4, StageMoves DEF Stages
  <2>2. tlb[victim].vpn = Page(t)
    BY <1>4 DEF Inv, MmuInv
  <2>3. /\ tlb' \in [Slots -> [valid : BOOLEAN, vpn : Pages, pfn : Pages]] /\ victim' = victim
        /\ tlb'[victim] = [tlb[victim] EXCEPT !.pfn = Page(t)]
        /\ tlb'[victim].vpn = tlb[victim].vpn /\ tlb'[victim].valid = tlb[victim].valid
        /\ tlb'[victim].pfn = Page(t)
        /\ \A i \in Slots \ {victim} : tlb'[i] = tlb[i]
    BY <1>1, <1>2, <1>4, <2>1 DEF FillPfn
  <2>4. MmuInv'
    BY <1>4, <2>1, <2>2, <2>3 DEF Inv, MmuInv
  <2> QED
    BY <1>1, <1>2, <1>4, <2>1, <2>3, <2>4, TranslationStays DEF Stages, MmuTypeOK
<1>5. ASSUME RefillStep("valid", "next"), FillValid, UNCHANGED frame
      PROVE  Inv'
  <2>1. /\ mem'[t] = "next"
        /\ \A u \in Threads \ {t} : mem'[u] = "search" /\ mem[u] = "search"
        /\ UNCHANGED Page(t)
        /\ victim \in Slots /\ tlb \in [Slots -> [valid : BOOLEAN, vpn : Pages, pfn : Pages]]
    BY <1>1, <1>5, StageMoves DEF Stages
  <2>2. tlb[victim].vpn = Page(t) /\ tlb[victim].pfn = Page(t)
    BY <1>5 DEF Inv, MmuInv
  <2>3. /\ tlb' \in [Slots -> [valid : BOOLEAN, vpn : Pages, pfn : Pages]] /\ victim' = victim
        /\ tlb'[victim].vpn = Page(t) /\ tlb'[victim].pfn = Page(t) /\ tlb'[victim].valid
        /\ \A i \in Slots \ {victim} : tlb'[i] = tlb[i]
    BY <1>1, <1>5, <2>1, <2>2 DEF FillValid
  <2>4. \A i \in Slots \ {victim} : tlb[i].valid => tlb[i].vpn # Page(t)
    BY <1>5 DEF Inv, MmuInv
  <2>5. MmuInv'
    BY <1>5, <2>1, <2>3, <2>4 DEF Inv, MmuInv
  <2> QED
    BY <1>1, <1>2, <1>5, <2>1, <2>3, <2>5, TranslationStays DEF Stages, MmuTypeOK
<1>6. ASSUME RefillStep("next", "access"), UpdateTLB, frame' = [frame EXCEPT ![t] = PageTable[Page(t)]]
      PROVE  Inv'
  <2>1. /\ mem'[t] = "access"
        /\ \A u \in Threads \ {t} : mem'[u] = "search" /\ mem[u] = "search"
        /\ UNCHANGED Page(t)
        /\ victim \in Slots /\ tlb \in [Slots -> [valid : BOOLEAN, vpn : Pages, pfn : Pages]]
    BY <1>1, <1>6, StageMoves DEF Stages
  <2>2. victim' \in Slots /\ UNCHANGED tlb
    BY <1>6, <2>1, Constants DEF UpdateTLB, Slots
  <2>3. frame' \in [Threads -> Pages] /\ frame'[t] = Page(t)
    BY <1>1, <1>2, <1>6
  <2>4. MmuInv'
    BY <1>6, <2>1, <2>2, <2>3 DEF Inv, MmuInv
  <2> QED
    BY <1>1, <1>6, <2>1, <2>2, <2>3, <2>4, TranslationStays DEF Stages, MmuTypeOK
<1> QED
  BY <1>3, <1>4, <1>5, <1>6 DEF Refill, Translating

-----------------------------------------------------------------------------
(* Access: one word of the table is read or written.                        *)

\* A translated word is the page's own.
LEMMA WordOfPage ==
    ASSUME Inv, NEW t \in Threads, mem[t] = "access"
    PROVE  /\ Working(t) /\ pc[t] \in Touching
           /\ Page(t) \in Pages /\ frame[t] = Page(t) /\ Word(t) = ram[Page(t)]
           /\ Word(t).ip \in Nat /\ Word(t).hop \in Nat
<1>1. pc[t] \in Touching /\ Page(t) \in Pages
  BY DEF Inv, Calls, CallInv
<1>2. frame[t] = Page(t)
  BY DEF Inv, MmuInv
<1>3. ram \in [Pages -> [ip : Nat, hop : Nat]]
  BY TypeParts DEF Inv, SharedTypes
<1> QED
  BY <1>1, <1>2, <1>3 DEF Word, Working

\* What every step inside a call, but a translation, has in common.
Acts(t) ==
    /\ Working(t) /\ mem[t] \in {"search", "access"}
    /\ pc'[t] \in Touching \cup {"unlock"} /\ mem'[t] = "search"
    /\ call'[t].kind = call[t].kind
    /\ Others(t) /\ ThreadTypes'
    /\ UNCHANGED <<mmuVars, owner, frame, mainVars>>

LEMMA BootedStays ==
    ASSUME NEW t \in Threads, Acts(t)
    PROVE  (Booted' => Booted) /\ (Booted => Booted')
<1>1. booted' = booted
  BY DEF Acts, mainVars
<1>2. (pc'["main"] # "idle" <=> pc["main"] # "idle") /\ call'["main"].kind = call["main"].kind
  <2>1. CASE t = "main"
    BY <2>1 DEF Acts, Working, Touching
  <2>2. CASE t # "main"
    BY <2>2 DEF Acts, Others, Threads
  <2> QED
    BY <2>1, <2>2
<1> QED
  BY <1>1, <1>2 DEF Booted

\* The mutex, the MMU and the other thread do not notice.
LEMMA ActsStay ==
    ASSUME Inv, NEW t \in Threads, Acts(t), ram' \in [Pages -> [ip : Nat, hop : Nat]]
    PROVE  /\ TypeOK' /\ MutexInv' /\ MmuInv'
           /\ \A u \in Threads \ {t} : CallInv(u)' /\ ScanInv(u)'
<1> USE DEF Acts, Others, mmuVars, mainVars
<1>1. \A u \in Threads \ {t} : ~ Working(u) /\ mem[u] = "search"
  BY Alone
<1>2. TypeOK'
  <2>1. SharedTypes' /\ MainTypes'
    BY TypeParts DEF Inv, SharedTypes, MainTypes, MmuTypeOK
  <2> QED
    BY <2>1, TypePartsNext
<1>3. (Booted' => Booted) /\ (Booted => Booted')
  BY BootedStays
<1>4. MutexInv'
  <2>1. \A u \in Threads : Working(u) => Working(u)' /\ call'[u].kind = call[u].kind
    BY DEF Working
  <2>2. \A u \in Threads : Working(u)' => Working(u)
    BY DEF Working
  <2>3. ~ Booted => pc'["listener"] = "idle" /\ cursor' = 0
    BY DEF Inv, MutexInv, Working, Touching, Threads
  <2> QED
    BY <1>3, <2>1, <2>2, <2>3 DEF Inv, MutexInv
<1>5. MmuInv'
  BY <1>1 DEF Inv, MmuInv
<1>6. ASSUME NEW u \in Threads \ {t}
      PROVE  CallInv(u)' /\ ScanInv(u)'
  <2>1. CallInv(u)'
    BY DEF Inv, Calls, CallInv, Page
  <2>2. pc'[u] \notin Touching
    BY <1>1 DEF Working
  <2> QED
    BY <2>1, <2>2 DEF ScanInv, Touching, Saves
<1> QED
  BY <1>2, <1>4, <1>5, <1>6

\* A step that writes nothing leaves the table as it is; the boot and the walk
\* only care for their own calls.
LEMMA ReadsStay ==
    ASSUME Inv, NEW t \in Threads, Acts(t), UNCHANGED ram, pc[t] # "newHop"
    PROVE  /\ TableInv'
           /\ call[t].kind # "preload" => BootInv'
           /\ call[t].kind # "entryIp" => WalkInv'
<1> USE DEF Acts, Others, mainVars
<1>1. TableInv'
  BY DEF Inv, TableInv, Compact
<1>2. (Booted' => Booted) /\ (Booted => Booted')
  BY BootedStays
<1>3. ASSUME call[t].kind # "preload"
      PROVE  BootInv'
  <2>1. Preloading' = Preloading
    BY <1>3 DEF Preloading, Threads
  <2>2. Preloading => pc'["main"] = pc["main"] /\ call'["main"] = call["main"]
    BY <1>3 DEF Preloading, Threads
  <2> QED
    BY <1>2, <2>1, <2>2 DEF Inv, BootInv, Stored
<1>4. ASSUME call[t].kind # "entryIp"
      PROVE  WalkInv'
  <2>1. call'["main"].kind = "entryIp" =>
           /\ call["main"].kind = "entryIp" /\ pc'["main"] = pc["main"]
           /\ idx'["main"] = idx["main"] /\ reply'["main"] = reply["main"]
    BY <1>4 DEF Threads
  <2> QED
    BY <1>2, <2>1 DEF Inv, WalkInv, AdvertisesHosts
<1> QED
  BY <1>1, <1>3, <1>4

\* The two lemmas together: what a step that reads still has to show.
LEMMA ReadKeepsInv ==
    ASSUME Inv, NEW t \in Threads, Acts(t), UNCHANGED ram, pc[t] # "newHop",
           CallInv(t)', ScanInv(t)',
           call[t].kind = "preload" => BootInv',
           call[t].kind = "entryIp" => WalkInv'
    PROVE  Inv'
<1>1. ram' \in [Pages -> [ip : Nat, hop : Nat]]
  BY TypeParts DEF Inv, SharedTypes
<1>2. Calls' /\ Scans'
  BY <1>1, ActsStay DEF Calls, Scans
<1> QED
  BY <1>1, <1>2, ActsStay, ReadsStay DEF Inv

\* A call comes to its end.
LEMMA ReturnActs ==
    ASSUME Inv, NEW t \in Threads, Working(t), mem[t] \in {"search", "access"}, NEW value \in Nat,
           Return(t, value), UNCHANGED <<free, call>>
    PROVE  /\ Acts(t) /\ pc'[t] = "unlock" /\ reply'[t] = value
           /\ CallInv(t)' /\ ScanInv(t)'
<1>1. Then(t, "unlock", 0) /\ reply' = [reply EXCEPT ![t] = value]
  BY DEF Return
<1>2. 0 \in 0 .. NumPages /\ "unlock" \in Steps
  BY Constants DEF Steps
<1>3. /\ pc' \in [Threads -> Steps] /\ mem' \in [Threads -> Stages]
      /\ idx' \in [Threads -> 0 .. NumPages]
      /\ pc'[t] = "unlock" /\ idx'[t] = 0 /\ mem'[t] = "search"
      /\ \A u \in Threads \ {t} : pc'[u] = pc[u] /\ mem'[u] = mem[u] /\ idx'[u] = idx[u]
      /\ UNCHANGED <<mmuVars, owner, frame, mainVars>>
  BY <1>1, <1>2, ThenMoves DEF Inv
<1>4. reply' \in [Threads -> Nat] /\ reply'[t] = value /\ \A u \in Threads \ {t} : reply'[u] = reply[u]
  BY <1>1, TypeParts DEF Inv, ThreadTypes
<1>5. ThreadTypes'
  BY <1>3, <1>4, TypeParts DEF Inv, ThreadTypes
<1>6. Acts(t)
  BY <1>3, <1>4, <1>5 DEF Acts, Others
<1>7. CallInv(t)'
  BY <1>3 DEF Inv, Calls, CallInv, Working, Saves, Touching
<1>8. ScanInv(t)'
  BY <1>3 DEF ScanInv, Saves
<1> QED
  BY <1>3, <1>4, <1>6, <1>7, <1>8

LEMMA ReturnKeepsInv ==
    ASSUME Inv, NEW t \in Threads, Working(t), mem[t] \in {"search", "access"}, NEW value \in Nat,
           Return(t, value), UNCHANGED <<free, call, ram>>, pc[t] # "newHop",
           call[t].kind = "preload" => Stored(booted),
           call[t].kind = "entryIp" => /\ value = 0 => cursor = NumPages \/ ram[cursor].ip = 0
                                       /\ value # 0 => cursor \in Pages /\ value = ram[cursor].ip
    PROVE  Inv'
<1>1. Acts(t) /\ pc'[t] = "unlock" /\ reply'[t] = value /\ CallInv(t)' /\ ScanInv(t)'
  BY ReturnActs
<1> USE DEF Acts, mainVars
<1>2. (Booted' => Booted) /\ (Booted => Booted')
  BY <1>1, BootedStays
<1>3. ASSUME call[t].kind = "preload"
      PROVE  BootInv'
  <2>1. t = "main"
    BY <1>3 DEF Inv, Calls, CallInv, Working, Touching, Threads
  <2>2. Preloading
    BY <1>3, <2>1 DEF Preloading, Working, Touching
  <2> QED
    BY <1>1, <1>2, <1>3, <2>1, <2>2 DEF Inv, BootInv, Preloading, Stored
<1>4. ASSUME call[t].kind = "entryIp"
      PROVE  WalkInv'
  <2>1. t = "main"
    BY <1>4 DEF Inv, Calls, CallInv, Working, Touching, Threads
  <2> QED
    BY <1>1, <1>2, <1>4, <2>1 DEF Inv, WalkInv, AdvertisesHosts
<1> QED
  BY <1>1, <1>3, <1>4, ReadKeepsInv

\* A call goes on with its next word.
LEMMA ThenActs ==
    ASSUME Inv, NEW t \in Threads, Working(t), mem[t] \in {"search", "access"},
           NEW step \in Touching, NEW i \in 0 .. NumPages, Then(t, step, i),
           free' \in [Threads -> 0 .. NumPages], call' \in [Threads -> [kind : Kinds, ip : Nat, hop : Nat]],
           \A u \in Threads \ {t} : free'[u] = free[u] /\ call'[u] = call[u],
           call'[t].kind = call[t].kind, UNCHANGED reply
    PROVE  Acts(t) /\ pc'[t] = step /\ idx'[t] = i /\ mem'[t] = "search"
<1>1. /\ pc' \in [Threads -> Steps] /\ mem' \in [Threads -> Stages]
      /\ idx' \in [Threads -> 0 .. NumPages]
      /\ pc'[t] = step /\ idx'[t] = i /\ mem'[t] = "search"
      /\ \A u \in Threads \ {t} : pc'[u] = pc[u] /\ mem'[u] = mem[u] /\ idx'[u] = idx[u]
      /\ UNCHANGED <<mmuVars, owner, frame, mainVars>>
  BY ThenMoves DEF Inv, Steps
<1>2. ThreadTypes'
  BY <1>1, TypeParts DEF Inv, ThreadTypes
<1> QED
  BY <1>1, <1>2 DEF Acts, Others

\* The search was in vain, or found another next hop: saveRoute.
LEMMA ToSaveKeepsInv ==
    ASSUME Inv, NEW t \in Threads, Working(t), mem[t] = "access", ToSave(t), UNCHANGED <<ram, call>>,
           pc[t] \in {"find", "findHop"}, call[t].kind = "learn",
           \A q \in Pages : ram[q].ip = call[t].ip => ram[q].hop # call[t].hop
    PROVE  Inv'
<1>1. Then(t, "save", 0) /\ free' = [free EXCEPT ![t] = None] /\ UNCHANGED reply
  BY DEF ToSave
<1>2. None \in 0 .. NumPages /\ 0 \in 0 .. NumPages /\ 0 \in Pages
  BY Constants DEF None
<1>3. /\ free \in [Threads -> 0 .. NumPages] /\ call \in [Threads -> [kind : Kinds, ip : Nat, hop : Nat]]
  BY TypeParts DEF Inv, ThreadTypes
<1>4. /\ free' \in [Threads -> 0 .. NumPages] /\ free'[t] = None
      /\ \A u \in Threads \ {t} : free'[u] = free[u]
  BY <1>1, <1>2, <1>3
<1>5. Acts(t) /\ pc'[t] = "save" /\ idx'[t] = 0 /\ mem'[t] = "search"
  BY <1>1, <1>2, <1>3, <1>4, ThenActs DEF Touching
<1>6. CallInv(t)'
  BY <1>2, <1>5 DEF Inv, Calls, CallInv, Saves
<1>7. ScanInv(t)'
  BY <1>4, <1>5, Constants DEF ScanInv
<1> QED
  BY <1>5, <1>6, <1>7, ReadKeepsInv

LEMMA FindIpKeepsInv ==
    ASSUME Inv, NEW t \in Threads, FindIp(t)
    PROVE  Inv'
<1> DEFINE i == idx[t]
<1>1. pc[t] = "find" /\ mem[t] = "access" /\ UNCHANGED <<ram, call>>
  BY DEF FindIp, Accessing
<1>2. Working(t) /\ i \in Pages /\ Word(t) = ram[i]
  BY <1>1, WordOfPage DEF Page
<1>3. call[t].kind \in {"learn", "find", "entryHop"} /\ call[t].ip # 0
  BY <1>1 DEF Inv, Calls, CallInv
<1>4. \A q \in Pages : q < i => ram[q].ip # call[t].ip
  BY <1>1 DEF Inv, Scans, ScanInv
<1>5. /\ free \in [Threads -> 0 .. NumPages] /\ call \in [Threads -> [kind : Kinds, ip : Nat, hop : Nat]]
      /\ i \in 0 .. NumPages
  BY TypeParts DEF Inv, ThreadTypes
<1>6. CASE Word(t).ip = call[t].ip /\ Then(t, "findHop", i) /\ UNCHANGED <<free, reply>>
  <2>1. Acts(t) /\ pc'[t] = "findHop" /\ idx'[t] = i /\ mem'[t] = "search"
    BY <1>1, <1>2, <1>5, <1>6, ThenActs DEF Touching
  <2>2. CallInv(t)'
    BY <1>1, <1>2, <1>3, <2>1 DEF Inv, Calls, CallInv, Saves
  <2>3. ScanInv(t)'
    BY <1>1, <1>2, <1>6, <2>1 DEF ScanInv, Saves
  <2> QED
    BY <1>1, <1>3, <2>1, <2>2, <2>3, ReadKeepsInv
<1>7. CASE /\ Word(t).ip # call[t].ip /\ i < NumPages - 1
           /\ Then(t, "find", i + 1) /\ UNCHANGED <<free, reply>>
  <2>1. i + 1 \in Pages /\ i + 1 \in 0 .. NumPages
    BY <1>2, <1>7, Constants
  <2>2. Acts(t) /\ pc'[t] = "find" /\ idx'[t] = i + 1 /\ mem'[t] = "search"
    BY <1>1, <1>2, <1>5, <1>7, <2>1, ThenActs DEF Touching
  <2>3. CallInv(t)'
    BY <1>1, <1>3, <2>1, <2>2 DEF Inv, Calls, CallInv, Saves
  <2>4. \A q \in Pages : q < i + 1 => ram[q].ip # call[t].ip
    BY <1>2, <1>4, <1>7, Constants
  <2>5. ScanInv(t)'
    BY <1>1, <2>2, <2>4 DEF ScanInv, Saves
  <2> QED
    BY <1>1, <1>3, <2>2, <2>3, <2>5, ReadKeepsInv
<1>8. CASE /\ Word(t).ip # call[t].ip /\ i = NumPages - 1
           /\ IF call[t].kind = "learn" THEN ToSave(t) ELSE Return(t, 0) /\ UNCHANGED free
  <2>1. \A q \in Pages : ram[q].ip # call[t].ip
    BY <1>2, <1>4, <1>8, Constants
  <2>2. CASE call[t].kind = "learn"
    BY <1>1, <1>2, <1>8, <2>1, <2>2, ToSaveKeepsInv
  <2>3. CASE call[t].kind # "learn"
    BY <1>1, <1>2, <1>3, <1>8, <2>3, ReturnKeepsInv
  <2> QED
    BY <2>2, <2>3
<1> QED
  BY <1>6, <1>7, <1>8 DEF FindIp

LEMMA FindHopKeepsInv ==
    ASSUME Inv, NEW t \in Threads, FindHop(t)
    PROVE  Inv'
<1> DEFINE i == idx[t]
<1>1. pc[t] = "findHop" /\ mem[t] = "access" /\ UNCHANGED <<ram, call>>
  BY DEF FindHop, Accessing
<1>2. Working(t) /\ i \in Pages /\ Word(t) = ram[i] /\ Word(t).hop \in Nat
  BY <1>1, WordOfPage DEF Page
<1>3. call[t].kind \in {"learn", "find", "entryHop"} /\ call[t].ip # 0
  BY <1>1 DEF Inv, Calls, CallInv
<1>4. ram[i].ip = call[t].ip
  BY <1>1 DEF Inv, Scans, ScanInv
<1>5. CASE call[t].kind # "learn" /\ Return(t, Word(t).hop) /\ UNCHANGED free
  BY <1>1, <1>2, <1>3, <1>5, ReturnKeepsInv
<1>6. CASE call[t].kind = "learn" /\ Word(t).hop = call[t].hop /\ Return(t, 0) /\ UNCHANGED free
  BY <1>1, <1>2, <1>3, <1>6, ReturnKeepsInv
<1>7. CASE call[t].kind = "learn" /\ Word(t).hop # call[t].hop /\ ToSave(t)
  <2>1. \A q \in Pages : ram[q].ip = call[t].ip => q = i
    BY <1>2, <1>3, <1>4 DEF Inv, TableInv, Compact
  <2>2. \A q \in Pages : ram[q].ip = call[t].ip => ram[q].hop # call[t].hop
    BY <1>2, <1>7, <2>1
  <2> QED
    BY <1>1, <1>2, <1>7, <2>2, ToSaveKeepsInv
<1> QED
  BY <1>5, <1>6, <1>7 DEF FindHop

\* The boot ignores whether its route is news.
LEMMA SavedReturns ==
    ASSUME Inv, NEW t \in Threads, Saved(t)
    PROVE  \E value \in Nat : Return(t, value)
<1>1. reply \in [Threads -> Nat]
  BY TypeParts DEF Inv, ThreadTypes
<1>2. CASE call[t].kind = "learn"
  BY <1>2 DEF Saved
<1>3. CASE call[t].kind # "learn"
  <2>1. Then(t, "unlock", 0) /\ UNCHANGED reply
    BY <1>3 DEF Saved
  <2>2. reply' = [reply EXCEPT ![t] = reply[t]]
    BY <1>1, <2>1
  <2> QED
    BY <1>1, <2>1, <2>2 DEF Return
<1> QED
  BY <1>2, <1>3

\* What a saveRoute knows.
LEMMA SaveKnows ==
    ASSUME Inv, NEW t \in Threads, pc[t] \in Saves, mem[t] = "access"
    PROVE  /\ call[t].kind \in {"preload", "learn"} /\ call[t].ip # 0 /\ call[t].hop # 0
           /\ call[t].ip \in Nat /\ call[t].hop \in Nat
           /\ call[t].kind = "preload" =>
                 /\ t = "main" /\ Preloading /\ ~ Booted
                 /\ booted \in 1 .. Len(Preload)
                 /\ call[t].ip = Preload[booted].ip /\ call[t].hop = Preload[booted].hop
           /\ call[t].kind = "learn" => t = "listener" /\ Booted /\ ~ Preloading
<1>1. call[t].kind \in {"preload", "learn"} /\ call[t].ip # 0 /\ call[t].hop # 0 /\ pc[t] # "idle"
  BY DEF Inv, Calls, CallInv, Saves
<1>2. call[t] \in [kind : Kinds, ip : Nat, hop : Nat]
  BY TypeParts DEF Inv, ThreadTypes
<1>3. ASSUME call[t].kind = "preload"
      PROVE  /\ t = "main" /\ Preloading /\ ~ Booted
             /\ booted \in 1 .. Len(Preload)
             /\ call[t].ip = Preload[booted].ip /\ call[t].hop = Preload[booted].hop
  <2>1. t = "main"
    BY <1>1, <1>3 DEF Inv, Calls, CallInv, Threads
  <2>2. Preloading /\ ~ Booted
    BY <1>1, <1>3, <2>1 DEF Preloading, Booted
  <2>3. booted \in 0 .. Len(Preload)
    BY TypeParts DEF Inv, MainTypes
  <2> QED
    BY <2>1, <2>2, <2>3, Constants DEF Inv, BootInv
<1>4. ASSUME call[t].kind = "learn"
      PROVE  t = "listener" /\ Booted /\ ~ Preloading
  <2>1. t = "listener"
    BY <1>1, <1>4 DEF Inv, Calls, CallInv, Threads
  <2>2. Booted
    BY <1>1, <2>1 DEF Inv, MutexInv
  <2> QED
    BY <2>1, <2>2 DEF Booted, Preloading
<1> QED
  BY <1>1, <1>2, <1>3, <1>4

LEMMA SaveScanKeepsInv ==
    ASSUME Inv, NEW t \in Threads, SaveScan(t)
    PROVE  Inv'
<1> DEFINE i == idx[t]
<1>1. pc[t] = "save" /\ mem[t] = "access" /\ UNCHANGED <<ram, call>>
  BY DEF SaveScan, Accessing
<1>2. Working(t) /\ i \in Pages /\ Word(t) = ram[i] /\ Word(t).ip \in Nat
  BY <1>1, WordOfPage DEF Page
<1>3. /\ call[t].kind \in {"preload", "learn"} /\ call[t].ip # 0
      /\ call[t].kind = "preload" => /\ t = "main" /\ Preloading
                                     /\ booted \in 1 .. Len(Preload)
                                     /\ call[t].ip = Preload[booted].ip
  BY <1>1, SaveKnows DEF Saves
<1>4. /\ \A q \in Pages : q < i => ram[q].ip # call[t].ip
      /\ IF free[t] = None THEN \A q \in Pages : q < i => ram[q].ip # 0
         ELSE free[t] < i /\ FirstFreePage(free[t])
      /\ call[t].kind = "learn" => \A q \in Pages : ram[q].ip = call[t].ip => ram[q].hop # call[t].hop
  BY <1>1 DEF Inv, Scans, ScanInv, Saves
<1>5. /\ free \in [Threads -> 0 .. NumPages] /\ call \in [Threads -> [kind : Kinds, ip : Nat, hop : Nat]]
      /\ i \in 0 .. NumPages /\ i # None
  <2>1. free \in [Threads -> 0 .. NumPages] /\ call \in [Threads -> [kind : Kinds, ip : Nat, hop : Nat]]
    BY TypeParts DEF Inv, ThreadTypes
  <2>2. i \in 0 .. NumPages /\ i # None
    BY <1>2, Constants DEF None
  <2> QED
    BY <2>1, <2>2
<1>6. ASSUME i = NumPages - 1, FirstFree(t) = None
      PROVE  \A q \in Pages : ram[q].ip # 0
  BY <1>2, <1>4, <1>5, <1>6, Constants DEF FirstFree
<1>7. ASSUME FirstFree(t) # None
      PROVE  FirstFree(t) \in Pages /\ FirstFree(t) < i + 1 /\ FirstFreePage(FirstFree(t))
  <2>1. CASE free[t] # None
    <3>1. FirstFree(t) = free[t]
      BY <2>1 DEF FirstFree
    <3>2. free[t] \in Nat /\ i \in Nat /\ i < NumPages /\ NumPages \in Nat /\ free[t] < i
      BY <1>2, <1>4, <1>5, <2>1, Constants
    <3> QED
      BY <1>4, <2>1, <3>1, <3>2, Constants
  <2>2. CASE free[t] = None
    <3>1. FirstFree(t) = i /\ ram[i].ip = 0
      BY <1>2, <1>7, <2>2 DEF FirstFree
    <3> QED
      BY <1>2, <1>4, <2>2, <3>1, Constants DEF FirstFreePage
  <2> QED
    BY <2>1, <2>2
<1>8. FirstFree(t) \in 0 .. NumPages
  BY <1>5 DEF FirstFree
<1>9. CASE Word(t).ip = call[t].ip /\ Then(t, "saveHop", i) /\ UNCHANGED <<free, reply>>
  <2>1. Acts(t) /\ pc'[t] = "saveHop" /\ idx'[t] = i /\ mem'[t] = "search"
    BY <1>1, <1>2, <1>5, <1>9, ThenActs DEF Touching
  <2>2. CallInv(t)'
    BY <1>1, <1>2, <1>3, <2>1 DEF Inv, Calls, CallInv, Saves
  <2>3. ScanInv(t)'
    BY <1>1, <1>2, <1>4, <1>9, <2>1 DEF ScanInv, Saves
  <2>4. ASSUME call[t].kind = "preload"
        PROVE  BootInv'
    <3>1. Stored(booted)
      BY <1>2, <1>3, <1>9, <2>4 DEF Stored
    <3>2. (Booted' => Booted) /\ (Booted => Booted')
      BY <2>1, BootedStays
    <3> QED
      BY <1>1, <1>3, <2>1, <2>4, <3>1, <3>2 DEF Inv, BootInv, Preloading, Stored, Acts, mainVars
  <2> QED
    BY <1>1, <1>3, <2>1, <2>2, <2>3, <2>4, ReadKeepsInv
<1>10. ASSUME NEW step \in {"save", "newIp"}, NEW j \in Pages, Then(t, step, j),
              Word(t).ip # call[t].ip, free' = [free EXCEPT ![t] = FirstFree(t)], UNCHANGED reply,
              step = "save" => i < NumPages - 1 /\ j = i + 1,
              step = "newIp" => i = NumPages - 1 /\ FirstFree(t) # None
       PROVE  Inv'
  <2>1. /\ free' \in [Threads -> 0 .. NumPages] /\ free'[t] = FirstFree(t)
        /\ \A u \in Threads \ {t} : free'[u] = free[u]
    BY <1>5, <1>8, <1>10
  <2>2. j \in 0 .. NumPages
    BY Constants
  <2>3. Acts(t) /\ pc'[t] = step /\ idx'[t] = j /\ mem'[t] = "search"
    BY <1>1, <1>2, <1>5, <1>10, <2>1, <2>2, ThenActs DEF Touching
  <2>4. CallInv(t)'
    BY <1>1, <1>3, <1>7, <1>10, <2>1, <2>3 DEF Inv, Calls, CallInv, Saves
  <2>5. ScanInv(t)'
    <3>1. \A q \in Pages : q < i + 1 => ram[q].ip # call[t].ip
      BY <1>2, <1>4, <1>10, Constants
    <3>2. CASE step = "save"
      <4>1. free'[t] = None => \A q \in Pages : q < i + 1 => ram[q].ip # 0
        <5>1. i \in Nat /\ \A q \in Pages : q < i + 1 => q < i \/ q = i
          BY <1>2, Constants
        <5>2. free'[t] = None => free[t] = None /\ ram[i].ip # 0
          BY <1>2, <1>5, <2>1 DEF FirstFree
        <5> QED
          BY <1>4, <5>1, <5>2
      <4>2. free'[t] # None => free'[t] < i + 1 /\ ram[free'[t]].ip = 0
                               /\ \A q \in Pages : q < free'[t] => ram[q].ip # 0
        BY <1>7, <2>1 DEF FirstFreePage
      <4>3. /\ pc'[t] = "save" /\ idx'[t] = i + 1 /\ ram' = ram /\ call' = call
        BY <1>1, <1>10, <2>3, <3>2
      <4> QED
        BY <1>4, <3>1, <4>1, <4>2, <4>3 DEF ScanInv, Saves, FirstFreePage
    <3>3. CASE step = "newIp"
      <4>1. \A q \in Pages : ram[q].ip # call[t].ip
        BY <1>10, <3>1, <3>3, Constants
      <4> QED
        BY <1>1, <1>4, <1>7, <1>10, <2>1, <2>3, <3>3, <4>1 DEF ScanInv, Saves, FirstFreePage
    <3> QED
      BY <3>2, <3>3
  <2>6. ASSUME call[t].kind = "preload"
        PROVE  BootInv'
    <3>1. (Booted' => Booted) /\ (Booted => Booted')
      BY <2>3, BootedStays
    <3> QED
      BY <1>1, <1>3, <2>3, <2>6, <3>1 DEF Inv, BootInv, Preloading, Stored, Acts, mainVars
  <2> QED
    BY <1>1, <1>3, <2>3, <2>4, <2>5, <2>6, ReadKeepsInv
<1>11. CASE Word(t).ip # call[t].ip /\ i = NumPages - 1 /\ FirstFree(t) = None /\ Saved(t) /\ UNCHANGED free
  <2>1. PICK value \in Nat : Return(t, value)
    BY <1>11, SavedReturns
  <2>2. ASSUME call[t].kind = "preload"
        PROVE  Stored(booted)
    <3>1. NumPages - 1 < booted - 1
      BY <1>1, <1>2, <1>3, <1>6, <1>11, <2>2 DEF Inv, BootInv
    <3> QED
      BY <1>3, <2>2, <3>1, Constants DEF Stored
  <2> QED
    BY <1>1, <1>2, <1>3, <1>11, <2>1, <2>2, ReturnKeepsInv
<1>12. i < NumPages - 1 => i + 1 \in Pages
  BY <1>2, Constants
<1>13. 0 \in Pages
  BY Constants
<1> QED
  BY <1>9, <1>10, <1>11, <1>12, <1>13 DEF SaveScan

\* What is below the cursor is a page, until the walk is done.
LEMMA CursorInRange ==
    ASSUME TypeOK
    PROVE  cursor \in 0 .. Done /\ \A k \in 1 .. cursor : cursor # Done => k - 1 \in Pages
<1>1. cursor \in 0 .. Done /\ NumPages \in Nat /\ Done = NumPages + 1
  BY TypeParts, Constants DEF MainTypes, Done
<1>2. cursor # Done => \A k \in 1 .. cursor : k - 1 \in Nat /\ k - 1 < NumPages
  BY <1>1
<1> QED
  BY <1>1, <1>2, Constants

\* The next hop is written: the route exists from now on.
LEMMA WriteHopKeepsInv ==
    ASSUME Inv, NEW t \in Threads, WriteHop(t)
    PROVE  Inv'
<1> DEFINE p == Page(t)
<1>1. /\ pc[t] \in {"saveHop", "newHop"} /\ mem[t] = "access" /\ UNCHANGED <<free, call>>
      /\ ram' = [ram EXCEPT ![frame[t]].hop = call[t].hop] /\ Saved(t)
  BY DEF WriteHop, Accessing
<1>2. Working(t) /\ p \in Pages /\ frame[t] = p
  BY <1>1, WordOfPage
<1>3. /\ call[t].kind \in {"preload", "learn"} /\ call[t].ip # 0 /\ call[t].hop # 0
      /\ call[t].hop \in Nat
      /\ call[t].kind = "preload" => /\ t = "main" /\ Preloading
                                     /\ booted \in 1 .. Len(Preload)
                                     /\ call[t].ip = Preload[booted].ip
      /\ call[t].kind = "learn" => t = "listener" /\ ~ Preloading
  BY <1>1, SaveKnows DEF Saves
<1>4. ram[p].ip = call[t].ip
  <2>1. CASE pc[t] = "saveHop"
    BY <2>1 DEF Inv, Scans, ScanInv, Page
  <2>2. CASE pc[t] = "newHop"
    <3>1. ram[free[t]] = [ip |-> call[t].ip, hop |-> 0]
      BY <2>2 DEF Inv, Scans, ScanInv
    <3> QED
      BY <2>2, <3>1 DEF Page
  <2> QED
    BY <1>1, <2>1, <2>2
<1>5. /\ ram' \in [Pages -> [ip : Nat, hop : Nat]]
      /\ \A q \in Pages : ram'[q].ip = ram[q].ip
      /\ \A q \in Pages \ {p} : ram'[q] = ram[q]
      /\ ram'[p].hop = call[t].hop
  <2>1. ram \in [Pages -> [ip : Nat, hop : Nat]]
    BY TypeParts DEF Inv, SharedTypes
  <2> QED
    BY <1>1, <1>2, <1>3, <2>1
<1>6. PICK value \in Nat : Return(t, value)
  BY <1>1, SavedReturns
<1>7. Acts(t) /\ pc'[t] = "unlock" /\ CallInv(t)' /\ ScanInv(t)'
  BY <1>1, <1>2, <1>6, ReturnActs
<1>8. TypeOK' /\ MutexInv' /\ MmuInv' /\ \A u \in Threads \ {t} : CallInv(u)' /\ ScanInv(u)'
  BY <1>5, <1>7, ActsStay
<1>9. (Booted' => Booted) /\ (Booted => Booted')
  BY <1>7, BootedStays
<1>10. TableInv'
  <2>1. Compact'
    BY <1>5 DEF Inv, TableInv, Compact
  <2>2. \A q \in Pages : ram'[q].ip = 0 => ram'[q].hop = 0
    BY <1>3, <1>4, <1>5 DEF Inv, TableInv
  <2>3. ASSUME NEW q \in Pages, ram'[q].ip # 0, ram'[q].hop = 0
        PROVE  FALSE
    <3>1. q # p /\ ram[q].ip # 0 /\ ram[q].hop = 0
      BY <1>3, <1>5, <2>3
    <3>2. PICK u \in Threads : pc[u] = "newHop" /\ free[u] = q
      BY <3>1 DEF Inv, TableInv
    <3>3. u = t
      BY <1>2, <3>2, Alone DEF Working, Touching
    <3> QED
      BY <3>1, <3>2, <3>3 DEF Page
  <2> QED
    BY <2>1, <2>2, <2>3 DEF TableInv
<1>11. BootInv'
  <2>1. ASSUME call[t].kind = "preload"
        PROVE  BootInv'
    <3>1. Stored(booted)
      BY <1>2, <1>3, <1>4, <2>1 DEF Stored
    <3> QED
      BY <1>1, <1>3, <1>5, <1>7, <1>9, <2>1, <3>1
      DEF Inv, BootInv, Preloading, Stored, Acts, mainVars
  <2>2. ASSUME call[t].kind = "learn"
        PROVE  BootInv'
    <3>1. pc'["main"] = pc["main"] /\ call'["main"] = call["main"]
      BY <1>3, <1>7, <2>2 DEF Acts, Others, Threads
    <3> QED
      BY <1>3, <1>5, <1>7, <1>9, <2>2, <3>1
      DEF Inv, BootInv, Preloading, Stored, Acts, mainVars
  <2> QED
    BY <1>3, <2>1, <2>2
<1>12. WalkInv'
  <2>1. call'["main"].kind = "entryIp" =>
           /\ call["main"].kind = "entryIp" /\ pc'["main"] = pc["main"]
           /\ idx'["main"] = idx["main"] /\ reply'["main"] = reply["main"]
    BY <1>3, <1>7 DEF Acts, Others, Threads
  <2>2. cursor \in 0 .. Done /\ \A k \in 1 .. cursor : cursor # Done => k - 1 \in Pages
    BY CursorInRange DEF Inv
  <2>3. cursor # Done => cursor = NumPages \/ cursor \in Pages
    BY <2>2, Constants DEF Done
  <2> QED
    BY <1>5, <1>7, <1>9, <2>1, <2>2, <2>3 DEF Inv, WalkInv, AdvertisesHosts, Acts, mainVars
<1> QED
  BY <1>7, <1>8, <1>10, <1>11, <1>12 DEF Inv, Calls, Scans

\* The destination is written to the first free page.
LEMMA WriteIpKeepsInv ==
    ASSUME Inv, NEW t \in Threads, WriteIp(t)
    PROVE  Inv'
<1> DEFINE p == free[t]
<1>1. /\ pc[t] = "newIp" /\ mem[t] = "access" /\ UNCHANGED <<free, call, reply>>
      /\ ram' = [ram EXCEPT ![frame[t]].ip = call[t].ip] /\ Then(t, "newHop", 0)
  BY DEF WriteIp, Accessing
<1>2. Working(t) /\ p \in Pages /\ frame[t] = p
  BY <1>1, WordOfPage DEF Page
<1>3. /\ call[t].kind \in {"preload", "learn"} /\ call[t].ip # 0 /\ call[t].hop # 0
      /\ call[t].ip \in Nat
      /\ call[t].kind = "preload" => /\ t = "main" /\ Preloading /\ ~ Booted
                                     /\ booted \in 1 .. Len(Preload)
                                     /\ call[t].ip = Preload[booted].ip
      /\ call[t].kind = "learn" => t = "listener" /\ Booted /\ ~ Preloading
  BY <1>1, SaveKnows DEF Saves
<1>4. FirstFreePage(p) /\ \A q \in Pages : ram[q].ip # call[t].ip
  BY <1>1 DEF Inv, Scans, ScanInv
<1>5. /\ ram' \in [Pages -> [ip : Nat, hop : Nat]]
      /\ \A q \in Pages \ {p} : ram'[q] = ram[q]
      /\ ram'[p] = [ip |-> call[t].ip, hop |-> 0]
  <2>1. ram \in [Pages -> [ip : Nat, hop : Nat]]
    BY TypeParts DEF Inv, SharedTypes
  <2>2. ram[p].ip = 0 /\ ram[p].hop = 0
    BY <1>2, <1>4 DEF FirstFreePage, Inv, TableInv
  <2> QED
    BY <1>1, <1>2, <1>3, <2>1, <2>2
<1>6. /\ free \in [Threads -> 0 .. NumPages] /\ call \in [Threads -> [kind : Kinds, ip : Nat, hop : Nat]]
      /\ 0 \in 0 .. NumPages
  <2>1. 0 \in 0 .. NumPages
    BY Constants
  <2> QED
    BY <2>1, TypeParts DEF Inv, ThreadTypes
<1>7. Acts(t) /\ pc'[t] = "newHop" /\ idx'[t] = 0 /\ mem'[t] = "search"
  BY <1>1, <1>2, <1>6, ThenActs DEF Touching
<1>8. TypeOK' /\ MutexInv' /\ MmuInv' /\ \A u \in Threads \ {t} : CallInv(u)' /\ ScanInv(u)'
  BY <1>5, <1>7, ActsStay
<1>9. (Booted' => Booted) /\ (Booted => Booted')
  BY <1>7, BootedStays
<1>10. CallInv(t)'
  BY <1>1, <1>2, <1>3, <1>7 DEF Inv, Calls, CallInv, Saves
<1>11. ScanInv(t)'
  <2>1. \A q \in Pages : p < q => ram[q].ip = 0 /\ q # p
    BY <1>2, <1>4, Constants DEF FirstFreePage, Inv, TableInv, Compact
  <2>2. \A q \in Pages : p < q => ram'[q].ip = 0
    BY <1>5, <2>1
  <2> QED
    BY <1>1, <1>2, <1>3, <1>4, <1>5, <1>7, <2>2 DEF ScanInv, Saves
<1>12. TableInv'
  <2>1. \A q \in Pages : q < p => ram[q].ip # 0
    BY <1>4 DEF FirstFreePage
  <2>2. \A q \in Pages : p < q => ram[q].ip = 0
    BY <1>2, <1>4 DEF FirstFreePage, Inv, TableInv, Compact
  <2>3. Compact'
    <3>1. ASSUME NEW q \in Pages, NEW r \in Pages, q < r, ram'[r].ip # 0
          PROVE  ram'[q].ip # 0
      <4>1. ASSUME p < r
            PROVE  FALSE
        <5>1. r # p
          BY <1>2, <4>1, Constants
        <5> QED
          BY <1>5, <2>2, <3>1, <4>1, <5>1
      <4>2. q < p
        BY <1>2, <3>1, <4>1, Constants
      <4>3. q # p
        BY <1>2, <4>2, Constants
      <4> QED
        BY <1>5, <2>1, <4>2, <4>3
    <3>2. ASSUME NEW q \in Pages, NEW r \in Pages, ram'[q].ip = ram'[r].ip, ram'[q].ip # 0
          PROVE  q = r
      BY <1>4, <1>5, <3>2 DEF Inv, TableInv, Compact
    <3> QED
      BY <3>1, <3>2 DEF Compact
  <2>4. \A q \in Pages : ram'[q].ip = 0 => ram'[q].hop = 0
    BY <1>5 DEF Inv, TableInv
  <2>5. ASSUME NEW q \in Pages, ram'[q].ip # 0, ram'[q].hop = 0
        PROVE  pc'[t] = "newHop" /\ free'[t] = q
    <3>1. ASSUME q # p
          PROVE  FALSE
      <4>1. PICK u \in Threads : pc[u] = "newHop"
        BY <1>5, <2>5, <3>1 DEF Inv, TableInv
      <4> QED
        BY <1>1, <1>2, <4>1, Alone DEF Working, Touching
    <3> QED
      BY <1>1, <1>7, <3>1
  <2> QED
    BY <2>3, <2>4, <2>5 DEF TableInv
<1>13. \A i \in 1 .. Len(Preload) : Stored(i) => Stored(i)'
  <2> SUFFICES ASSUME NEW i \in 1 .. Len(Preload), Stored(i)
               PROVE  Stored(i)'
    OBVIOUS
  <2>1. CASE i > NumPages
    BY <2>1 DEF Stored
  <2>2. ASSUME NEW q \in Pages, ram[q].ip = Preload[i].ip
        PROVE  Stored(i)'
    <3>1. ram[q].ip # 0
      BY <2>2, Constants
    <3>2. ram'[q] = ram[q]
      BY <1>4, <1>5, <3>1 DEF FirstFreePage
    <3> QED
      BY <2>2, <3>2 DEF Stored
  <2> QED
    BY <2>1, <2>2 DEF Stored
<1>14. BootInv'
  <2>1. booted \in 0 .. Len(Preload)
    BY TypeParts DEF Inv, MainTypes
  <2>2. ASSUME call[t].kind = "preload"
        PROVE  BootInv'
    <3>1. \A i : i = booted => Stored(i)'
      BY <1>2, <1>3, <1>5, <2>2 DEF Stored
    <3>2. \A q \in Pages : ram[q].ip # 0 => q < booted - 1
      BY <1>1, <1>3, <2>2 DEF Inv, BootInv
    <3>3. p < booted
      <4>1. ASSUME p >= booted
            PROVE  FALSE
        <5>1. booted - 1 \in Pages /\ booted - 1 < p
          BY <1>2, <1>3, <2>2, <4>1, Constants, SMTT(30)
        <5>2. ram[booted - 1].ip # 0
          BY <1>4, <5>1 DEF FirstFreePage
        <5>3. booted - 1 < booted - 1
          BY <3>2, <5>1, <5>2
        <5> QED
          BY <1>3, <2>2, <5>3
      <4> QED
        BY <1>2, <1>3, <2>2, <4>1, Constants
    <3>4. \A q \in Pages : ram'[q].ip # 0 => q < booted
      <4>1. \A q \in Pages : q < booted - 1 => q < booted
        BY <2>1, Constants
      <4> QED
        BY <1>5, <3>2, <3>3, <4>1
    <3>5. \A i \in 1 .. booted : Stored(i)'
      <4>1. \A i \in 1 .. booted : i \in 1 .. Len(Preload) /\ (Stored(i) \/ i = booted)
        BY <2>1, Constants DEF Inv, BootInv
      <4> QED
        BY <1>13, <3>1, <4>1
    <3>6. booted' = booted /\ call'["main"] = call["main"]
      BY <1>1, <1>7 DEF Acts, mainVars
    <3>7. booted # 0 /\ call["main"].ip = Preload[booted].ip /\ call["main"].hop = Preload[booted].hop
      BY <1>3, <2>2 DEF Inv, BootInv
    <3> QED
      BY <1>3, <1>7, <2>2, <3>4, <3>5, <3>6, <3>7 DEF BootInv
  <2>3. ASSUME call[t].kind = "learn"
        PROVE  BootInv'
    <3>1. pc'["main"] = pc["main"] /\ call'["main"] = call["main"] /\ booted' = booted
      BY <1>3, <1>7, <2>3 DEF Acts, Others, Threads, mainVars
    <3>2. ~ Preloading' /\ Booted'
      BY <1>3, <1>9, <2>3, <3>1 DEF Preloading
    <3>3. \A i \in 1 .. booted : Stored(i)'
      BY <1>3, <1>13, <2>1, <2>3 DEF Inv, BootInv
    <3> QED
      BY <3>1, <3>2, <3>3 DEF BootInv
  <2> QED
    BY <1>3, <2>2, <2>3
<1>15. WalkInv'
  <2>1. call'["main"].kind = "entryIp" =>
           /\ call["main"].kind = "entryIp" /\ pc'["main"] = pc["main"]
           /\ idx'["main"] = idx["main"] /\ reply'["main"] = reply["main"] /\ t # "main"
    BY <1>1, <1>3, <1>7 DEF Acts, Others, Threads
  <2>2. call["main"].kind = "entryIp" /\ t # "main" => pc["main"] # "unlock"
    BY <1>2, Alone, Constants DEF Working
  <2>3. cursor \in 0 .. Done /\ \A k \in 1 .. cursor : cursor # Done => k - 1 \in Pages
    BY CursorInRange DEF Inv
  <2>4. \A q \in Pages : ram[q].ip # 0 => ram'[q] = ram[q]
    BY <1>4, <1>5 DEF FirstFreePage
  <2>5. cursor # Done => Len(advertised) = cursor
                         /\ \A k \in 1 .. cursor : advertised[k] = ram'[k - 1].ip /\ ram'[k - 1].ip # 0
    BY <2>3, <2>4 DEF Inv, WalkInv
  <2> QED
    BY <1>7, <1>9, <2>1, <2>2, <2>5 DEF Inv, WalkInv, AdvertisesHosts, Acts, mainVars
<1> QED
  BY <1>8, <1>10, <1>11, <1>12, <1>14, <1>15 DEF Inv, Calls, Scans

LEMMA EntryKeepsInv ==
    ASSUME Inv, NEW t \in Threads, EntryOf(t)
    PROVE  Inv'
<1> DEFINE i == idx[t]
<1>1. pc[t] = "entry" /\ UNCHANGED <<ram, free>> /\ Entry(t)
  BY DEF EntryOf, Entry, Accessing
<1>2. Working(t) /\ call[t].kind \in {"entryIp", "entryHop"} /\ i \in 0 .. NumPages
  BY <1>1, TypeParts DEF Working, Touching, Inv, Calls, CallInv, ThreadTypes
<1>3. call[t].kind = "entryIp" => t = "main" /\ i = cursor
  BY <1>1 DEF Inv, Calls, CallInv, WalkInv, Threads
<1>4. CASE i = NumPages /\ Return(t, 0) /\ UNCHANGED call
  <2>1. mem[t] = "search"
    BY <1>1, <1>4, Constants DEF Inv, Calls, CallInv, Page
  <2> QED
    BY <1>1, <1>2, <1>3, <1>4, <2>1, ReturnKeepsInv
<1>5. ASSUME mem[t] = "access"
      PROVE  i \in Pages /\ Word(t) = ram[i] /\ Word(t).ip \in Nat
  BY <1>1, <1>5, WordOfPage DEF Page
<1>6. CASE mem[t] = "access" /\ Word(t).ip = 0 /\ Return(t, 0) /\ UNCHANGED call
  BY <1>1, <1>2, <1>3, <1>5, <1>6, ReturnKeepsInv
<1>7. CASE /\ mem[t] = "access" /\ Word(t).ip # 0 /\ call[t].kind = "entryIp"
           /\ Return(t, Word(t).ip) /\ UNCHANGED call
  BY <1>1, <1>2, <1>3, <1>5, <1>7, ReturnKeepsInv
<1>8. CASE /\ mem[t] = "access" /\ Word(t).ip # 0 /\ call[t].kind = "entryHop"
           /\ call' = [call EXCEPT ![t].ip = Word(t).ip]
           /\ Then(t, "find", 0) /\ UNCHANGED reply
  <2>1. /\ free \in [Threads -> 0 .. NumPages] /\ call \in [Threads -> [kind : Kinds, ip : Nat, hop : Nat]]
        /\ 0 \in 0 .. NumPages /\ 0 \in Pages
    <3>1. 0 \in 0 .. NumPages /\ 0 \in Pages
      BY Constants
    <3> QED
      BY <3>1, TypeParts DEF Inv, ThreadTypes
  <2>2. /\ call' \in [Threads -> [kind : Kinds, ip : Nat, hop : Nat]]
        /\ \A u \in Threads \ {t} : call'[u] = call[u]
        /\ call'[t].kind = call[t].kind /\ call'[t].ip = Word(t).ip
    BY <1>5, <1>8, <2>1
  <2>3. Acts(t) /\ pc'[t] = "find" /\ idx'[t] = 0 /\ mem'[t] = "search"
    BY <1>1, <1>2, <1>8, <2>1, <2>2, ThenActs DEF Touching
  <2>4. CallInv(t)'
    BY <1>1, <1>2, <1>8, <2>1, <2>2, <2>3 DEF Inv, Calls, CallInv, Saves
  <2>5. ScanInv(t)'
    BY <2>3, Constants DEF ScanInv, Saves
  <2> QED
    BY <1>1, <1>8, <2>3, <2>4, <2>5, ReadKeepsInv
<1> QED
  BY <1>1, <1>4, <1>6, <1>7, <1>8 DEF Entry, Accessing

-----------------------------------------------------------------------------
(* The threads: calls begin, take the mutex and return.                     *)

\* What a call that begins leaves alone.
LEMMA BeginStays ==
    ASSUME Inv, NEW t \in Threads, NEW step \in {"lock", "save"},
           NEW c \in [kind : Kinds, ip : Nat, hop : Nat], NEW i \in 0 .. NumPages,
           Begin(t, step, c, i), booted' \in 0 .. Len(Preload)
    PROVE  /\ TypeOK' /\ MmuInv' /\ TableInv' /\ Others(t)
           /\ \A u \in Threads \ {t} : CallInv(u)' /\ ScanInv(u)'
           /\ pc[t] = "idle" /\ pc'[t] = step /\ call'[t] = c /\ idx'[t] = i /\ free'[t] = None
           /\ mem'[t] = "search" /\ owner # t
           /\ UNCHANGED <<mmuVars, ram, owner, reply, cursor, advertised>>
<1> USE DEF Begin, mmuVars
<1>1. ThreadTypes /\ SharedTypes /\ MainTypes /\ None \in 0 .. NumPages
  BY TypeParts, Constants DEF Inv, None
<1>2. /\ pc[t] = "idle" /\ pc'[t] = step /\ call'[t] = c /\ idx'[t] = i /\ free'[t] = None
      /\ Others(t)
      /\ UNCHANGED <<mmuVars, ram, owner, reply, cursor, advertised>>
  BY <1>1 DEF ThreadTypes, Others
<1>3. mem[t] = "search" /\ mem'[t] = "search" /\ owner # t
  BY <1>2 DEF Inv, Calls, CallInv, MutexInv, Working, Touching
<1>4. TypeOK'
  <2>1. ThreadTypes'
    <3>1. step \in Steps
      BY DEF Steps, Touching
    <3>2. pc' \in [Threads -> Steps]
      BY <1>1, <3>1 DEF ThreadTypes
    <3>3. call' \in [Threads -> [kind : Kinds, ip : Nat, hop : Nat]]
      BY <1>1 DEF ThreadTypes
    <3>4. idx' \in [Threads -> 0 .. NumPages] /\ free' \in [Threads -> 0 .. NumPages]
      BY <1>1 DEF ThreadTypes
    <3> QED
      BY <1>1, <3>2, <3>3, <3>4 DEF ThreadTypes
  <2>2. SharedTypes' /\ MainTypes'
    BY <1>1 DEF SharedTypes, MainTypes, MmuTypeOK
  <2> QED
    BY <2>1, <2>2, TypePartsNext
<1>5. MmuInv'
  <2>1. \A u \in Threads \ {t} : UNCHANGED Page(u)
    BY <1>2 DEF Page, Others
  <2> QED
    BY <1>2, <1>3, <2>1 DEF Inv, MmuInv, Others
<1>6. TableInv'
  BY <1>2 DEF Inv, TableInv, Compact, Others
<1>7. ASSUME NEW u \in Threads \ {t}
      PROVE  CallInv(u)' /\ ScanInv(u)'
  <2>1. CallInv(u)'
    BY <1>2 DEF Inv, Calls, CallInv, Page, Others
  <2>2. ScanInv(u)'
    BY <1>2 DEF Inv, Scans, ScanInv, FirstFreePage, Others
  <2> QED
    BY <2>1, <2>2
<1> QED
  BY <1>2, <1>3, <1>4, <1>5, <1>6, <1>7

LEMMA PreloadHostKeepsInv ==
    ASSUME Inv, PreloadHost
    PROVE  Inv'
<1> DEFINE r == Preload[booted + 1]
           c == [kind |-> "preload", ip |-> r.ip, hop |-> r.hop]
<1>1. booted < Len(Preload) /\ Begin("main", "save", c, 0) /\ booted' = booted + 1
  BY DEF PreloadHost
<1>2. /\ booted \in Nat /\ booted' \in 1 .. Len(Preload) /\ r.ip \in Nat \ {0} /\ r.hop \in Nat \ {0}
      /\ 0 \in 0 .. NumPages /\ 0 \in Pages
  <2>1. booted \in 0 .. Len(Preload)
    BY TypeParts DEF Inv, MainTypes
  <2>2. booted' \in 1 .. Len(Preload)
    BY <1>1, <2>1, Constants
  <2> QED
    BY <1>1, <2>1, <2>2, Constants
<1>3. c \in [kind : Kinds, ip : Nat, hop : Nat]
  BY <1>2 DEF Kinds
<1> HIDE DEF c
<1>4. /\ TypeOK' /\ MmuInv' /\ TableInv' /\ Others("main")
      /\ \A u \in Threads \ {"main"} : CallInv(u)' /\ ScanInv(u)'
      /\ pc["main"] = "idle" /\ pc'["main"] = "save" /\ call'["main"] = c
      /\ idx'["main"] = 0 /\ free'["main"] = None
      /\ mem'["main"] = "search" /\ owner # "main"
      /\ UNCHANGED <<mmuVars, ram, owner, reply, cursor, advertised>>
  <2>1. booted' \in 0 .. Len(Preload)
    BY <1>2, Constants
  <2> QED
    BY <1>1, <1>2, <1>3, <2>1, Constants, BeginStays
<1>5. c.kind = "preload" /\ c.ip = r.ip /\ c.hop = r.hop
  BY DEF c
<1>6. ~ Booted /\ ~ Booted' /\ Preloading' /\ ~ Preloading
  <2>1. ~ Booted
    <3>1. booted # Len(Preload)
      BY <1>1, <1>2
    <3> QED
      BY <3>1 DEF Booted
  <2>2. ~ Booted' /\ Preloading' /\ ~ Preloading
    BY <1>4, <1>5 DEF Booted, Preloading
  <2> QED
    BY <2>1, <2>2
<1>7. pc["listener"] = "idle" /\ cursor = 0
  BY <1>6 DEF Inv, MutexInv
<1>8. MutexInv'
  <2>1. pc'["listener"] = "idle" /\ owner # "listener"
    BY <1>4, <1>7, Constants DEF Others, Threads, Inv, MutexInv, Working, Touching
  <2> QED
    BY <1>4, <1>5, <1>7, <2>1 DEF MutexInv, Working, Threads, Touching
<1>9. CallInv("main")'
  BY <1>2, <1>4, <1>5 DEF CallInv, Saves
<1>10. ScanInv("main")'
  BY <1>4, <1>5, Constants DEF ScanInv, Saves
<1>11. BootInv'
  <2>1. \A i \in 1 .. booted : Stored(i)
    BY <1>6 DEF Inv, BootInv
  <2>2. \A i \in 1 .. booted' : Stored(i)' \/ i = booted'
    BY <1>1, <1>2, <1>4, <2>1 DEF Stored
  <2>3. \A p \in Pages : ram[p].ip # 0 => p < booted /\ p < booted' /\ p < booted' - 1
    BY <1>1, <1>2, <1>6, Constants DEF Inv, BootInv
  <2>4. r = Preload[booted']
    BY <1>1
  <2> QED
    BY <1>2, <1>4, <1>5, <1>6, <2>2, <2>3, <2>4 DEF BootInv
<1>12. WalkInv'
  BY <1>4, <1>5, <1>7 DEF Inv, WalkInv, AdvertisesHosts
<1> QED
  BY <1>4, <1>8, <1>9, <1>10, <1>11, <1>12 DEF Inv, Calls, Scans

\* A call that has to take the mutex first.
LEMMA WaitingKeepsInv ==
    ASSUME Inv, NEW t \in Threads, NEW c \in [kind : Kinds, ip : Nat, hop : Nat], NEW i \in 0 .. NumPages,
           Begin(t, "lock", c, i), UNCHANGED booted, Booted,
           c.kind \in IF t = "main" THEN {"entryIp"} ELSE {"learn", "find", "entryHop"},
           c.kind = "entryIp" => i = cursor /\ cursor # Done,
           c.kind \in {"learn", "find"} => i = 0 /\ c.ip \in Ips,
           c.kind = "learn" => c.hop \in Hops
    PROVE  Inv'
<1>1. booted' \in 0 .. Len(Preload)
  BY TypeParts DEF Inv, MainTypes
<1>2. /\ TypeOK' /\ MmuInv' /\ TableInv' /\ Others(t)
      /\ \A u \in Threads \ {t} : CallInv(u)' /\ ScanInv(u)'
      /\ pc[t] = "idle" /\ pc'[t] = "lock" /\ call'[t] = c /\ idx'[t] = i /\ free'[t] = None
      /\ mem'[t] = "search" /\ owner # t
      /\ UNCHANGED <<mmuVars, ram, owner, reply, cursor, advertised>>
  BY <1>1, BeginStays
<1>3. Booted' /\ ~ Preloading /\ ~ Preloading'
  <2>1. CASE t = "main"
    BY <1>2, <2>1 DEF Booted, Preloading
  <2>2. CASE t # "main"
    BY <1>2, <2>2 DEF Booted, Preloading, Others, Threads
  <2> QED
    BY <2>1, <2>2
<1>4. MutexInv'
  <2>1. \A u \in Threads : Working(u)' => Working(u) /\ u # t
    BY <1>2 DEF Working, Touching, Others
  <2>2. \A u \in Threads : u # t /\ Working(u) => Working(u)' /\ call'[u] = call[u]
    BY <1>2 DEF Working, Others
  <2> QED
    BY <1>2, <1>3, <2>1, <2>2 DEF Inv, MutexInv
<1>5. CallInv(t)'
  BY <1>2, MetIsPositive DEF CallInv, Saves
<1>6. ScanInv(t)'
  BY <1>2 DEF ScanInv, Saves
<1>7. BootInv'
  BY <1>2, <1>3 DEF Inv, BootInv, Stored
<1>8. WalkInv'
  <2>1. ASSUME call'["main"].kind = "entryIp"
        PROVE  /\ cursor # Done
               /\ pc'["main"] \in {"lock", "entry"} => idx'["main"] = cursor
               /\ pc'["main"] = "unlock" => /\ pc["main"] = "unlock" /\ call["main"].kind = "entryIp"
                                            /\ reply'["main"] = reply["main"]
    <3>1. CASE t = "main"
      BY <1>2, <2>1, <3>1
    <3>2. CASE t # "main"
      BY <1>2, <2>1, <3>2 DEF Others, Threads, Inv, WalkInv
    <3> QED
      BY <3>1, <3>2
  <2> QED
    BY <1>2, <1>3, <2>1 DEF Inv, WalkInv, AdvertisesHosts
<1> QED
  BY <1>2, <1>4, <1>5, <1>6, <1>7, <1>8 DEF Inv, Calls, Scans

LEMMA AdvertiseNextKeepsInv ==
    ASSUME Inv, AdvertiseNext
    PROVE  Inv'
<1> DEFINE c == [kind |-> "entryIp", ip |-> 0, hop |-> 0]
<1>1. Booted /\ cursor < Done /\ Begin("main", "lock", c, cursor) /\ UNCHANGED booted
  BY DEF AdvertiseNext
<1>2. c \in [kind : Kinds, ip : Nat, hop : Nat]
  BY DEF Kinds
<1>3. c.kind = "entryIp"
  OBVIOUS
<1>4. cursor \in 0 .. NumPages /\ cursor # Done
  BY <1>1, TypeParts, Constants DEF Inv, MainTypes, Done
<1> HIDE DEF c
<1> QED
  BY <1>1, <1>2, <1>3, <1>4, Constants, WaitingKeepsInv

LEMMA ListenerCallKeepsInv ==
    ASSUME Inv, LearnRoute \/ LookUp \/ SendTable
    PROVE  Inv'
<1>1. \A ip \in Ips : ip \in Nat \ {0}
  BY MetIsPositive
<1>2. \A hop \in Hops : hop \in Nat \ {0}
  BY MetIsPositive
<1>3. PICK c \in [kind : {"learn", "find", "entryHop"}, ip : Nat, hop : Nat], i \in 0 .. NumPages :
         /\ Booted /\ Begin("listener", "lock", c, i) /\ UNCHANGED booted
         /\ c.kind \in {"learn", "find"} => i = 0 /\ c.ip \in Ips
         /\ c.kind = "learn" => c.hop \in Hops
  <2>1. 0 \in 0 .. NumPages
    BY Constants
  <2>2. CASE LearnRoute
    <3>1. PICK ip \in Ips, hop \in Hops :
             /\ Booted /\ UNCHANGED booted
             /\ Begin("listener", "lock", [kind |-> "learn", ip |-> ip, hop |-> hop], 0)
      BY <2>2 DEF LearnRoute
    <3> QED
      BY <1>1, <1>2, <2>1, <3>1
  <2>3. CASE LookUp
    <3>1. PICK ip \in Ips :
             /\ Booted /\ UNCHANGED booted
             /\ Begin("listener", "lock", [kind |-> "find", ip |-> ip, hop |-> 0], 0)
      BY <2>3 DEF LookUp
    <3> QED
      BY <1>1, <2>1, <3>1
  <2>4. CASE SendTable
    <3>1. PICK i \in 0 .. NumPages :
             /\ Booted /\ UNCHANGED booted
             /\ Begin("listener", "lock", [kind |-> "entryHop", ip |-> 0, hop |-> 0], i)
      BY <2>4 DEF SendTable
    <3> QED
      BY <3>1
  <2> QED
    BY <2>2, <2>3, <2>4
<1>4. c \in [kind : Kinds, ip : Nat, hop : Nat] /\ c.kind \in {"learn", "find", "entryHop"}
  BY DEF Kinds
<1> QED
  BY <1>3, <1>4, Constants, WaitingKeepsInv

LEMMA LockKeepsInv ==
    ASSUME Inv, NEW t \in Threads, Lock(t)
    PROVE  Inv'
<1> DEFINE step == IF call[t].kind \in {"entryIp", "entryHop"} THEN "entry" ELSE "find"
<1> USE DEF mmuVars, mainVars
<1>1. /\ pc[t] = "lock" /\ owner = "nobody" /\ owner' = t
      /\ pc' = [pc EXCEPT ![t] = step]
      /\ UNCHANGED <<mmuVars, ram, mem, frame, call, idx, free, reply, mainVars>>
  BY DEF Lock
<1>2. ThreadTypes /\ SharedTypes /\ MainTypes
  BY TypeParts DEF Inv
<1>3. /\ pc' \in [Threads -> Steps] /\ pc'[t] = step /\ \A u \in Threads \ {t} : pc'[u] = pc[u]
  BY <1>1, <1>2 DEF ThreadTypes, Steps, Touching
<1>4. call[t].kind \in {"learn", "find", "entryIp", "entryHop"} /\ mem[t] = "search"
  BY <1>1 DEF Inv, Calls, CallInv, Threads, Touching
<1>5. Booted /\ ~ Preloading
  <2>1. CASE t = "main"
    BY <1>1, <1>4, <2>1 DEF Inv, Calls, CallInv, WalkInv, Preloading, Booted
  <2>2. CASE t # "main"
    BY <1>1, <2>2 DEF Inv, MutexInv, Threads, Preloading, Booted
  <2> QED
    BY <2>1, <2>2
<1>6. (pc'["main"] # "idle" <=> pc["main"] # "idle") /\ Booted' /\ ~ Preloading'
  <2>1. pc'["main"] # "idle" <=> pc["main"] # "idle"
    BY <1>1, <1>3, Constants
  <2> QED
    BY <1>1, <1>5, <2>1 DEF Booted, Preloading
<1>7. \A u \in Threads : ~ Working(u)
  <2> SUFFICES ASSUME NEW u \in Threads, Working(u)
               PROVE  FALSE
    OBVIOUS
  <2>1. call[u].kind = "preload"
    BY <1>1 DEF Inv, MutexInv, Threads
  <2>2. u = "main" /\ pc[u] # "idle"
    BY <2>1 DEF Inv, Calls, CallInv, Working, Touching, Threads
  <2> QED
    BY <1>5, <2>1, <2>2 DEF Preloading
<1>8. TypeOK'
  <2>1. ThreadTypes' /\ SharedTypes' /\ MainTypes'
    BY <1>1, <1>2, <1>3 DEF ThreadTypes, SharedTypes, MainTypes, MmuTypeOK
  <2> QED
    BY <2>1, TypePartsNext
<1>9. MutexInv'
  <2>1. \A u \in Threads : Working(u)' <=> u = t
    BY <1>3, <1>7 DEF Working, Touching
  <2> QED
    BY <1>1, <1>4, <1>6, <2>1 DEF MutexInv
<1>10. Calls'
  <2>1. \A u \in Threads : u # t => CallInv(u)'
    BY <1>1, <1>3 DEF Inv, Calls, CallInv, Page
  <2>2. call[t].kind \in {"learn", "find"} => idx[t] = 0 /\ call[t].ip # 0
    BY <1>1, MetIsPositive DEF Inv, Calls, CallInv
  <2>3. 0 \in Pages
    BY Constants
  <2>4. CallInv(t)'
    BY <1>1, <1>3, <1>4, <2>2, <2>3 DEF Inv, Calls, CallInv, Saves, Touching
  <2> QED
    BY <2>1, <2>4 DEF Calls
<1>11. MmuInv'
  <2>1. \A u \in Threads : mem[u] = "search"
    BY <1>7 DEF Inv, Calls, CallInv, Working
  <2> QED
    BY <1>1, <2>1 DEF Inv, MmuInv
<1>12. Scans'
  <2>1. \A u \in Threads : u # t => ScanInv(u)'
    BY <1>1, <1>3 DEF Inv, Scans, ScanInv, FirstFreePage
  <2>2. pc'[t] = "find" => idx'[t] = 0
    BY <1>1, <1>3, <1>4 DEF Inv, Calls, CallInv
  <2>3. ScanInv(t)'
    BY <1>3, <2>2, Constants DEF ScanInv, Saves
  <2> QED
    BY <2>1, <2>3 DEF Scans
<1>13. TableInv'
  BY <1>1, <1>7 DEF Inv, TableInv, Compact, Working, Touching
<1>14. BootInv'
  BY <1>1, <1>5, <1>6 DEF Inv, BootInv, Stored
<1>15. WalkInv'
  <2>1. pc'["main"] = "unlock" => pc["main"] = "unlock"
    BY <1>3, Constants
  <2>2. pc'["main"] \in {"lock", "entry"} /\ call["main"].kind = "entryIp" => pc["main"] \in {"lock", "entry"}
    BY <1>1, <1>3, Constants
  <2> QED
    BY <1>1, <1>6, <2>1, <2>2 DEF Inv, WalkInv, AdvertisesHosts
<1> QED
  BY <1>8, <1>9, <1>10, <1>11, <1>12, <1>13, <1>14, <1>15 DEF Inv

\* The walk has been told a destination, or that there is no more.
LEMMA WalkGoesOn ==
    ASSUME Inv, pc["main"] = "unlock", call["main"].kind = "entryIp", UNCHANGED ram,
           IF reply["main"] = 0 THEN cursor' = Done /\ UNCHANGED advertised
           ELSE cursor' = cursor + 1 /\ advertised' = Append(advertised, reply["main"])
    PROVE  /\ cursor' \in 0 .. Done /\ advertised' \in Seq(Nat)
           /\ cursor' # Done => /\ Len(advertised') = cursor'
                                /\ \A k \in 1 .. cursor' : /\ advertised'[k] = ram[k - 1].ip
                                                           /\ ram[k - 1].ip # 0
           /\ AdvertisesHosts'
<1>1. /\ cursor \in 0 .. Done /\ cursor # Done /\ Done = NumPages + 1 /\ NumPages \in Nat
      /\ advertised \in Seq(Nat) /\ reply["main"] \in Nat /\ booted = Len(Preload)
  BY TypeParts, Constants DEF Inv, ThreadTypes, MainTypes, WalkInv, Done, Booted
<1>2. /\ Len(advertised) = cursor
      /\ \A k \in 1 .. cursor : advertised[k] = ram[k - 1].ip /\ ram[k - 1].ip # 0 /\ k - 1 \in Pages
  BY <1>1, CursorInRange DEF Inv, WalkInv
<1>3. \A i, j \in DOMAIN advertised : advertised[i] = advertised[j] => i = j
  BY DEF Inv, WalkInv, AdvertisesHosts
<1>4. CASE reply["main"] = 0
  <2>1. cursor' = Done /\ advertised' = advertised
    BY <1>4
  <2>2. cursor = NumPages \/ ram[cursor].ip = 0
    BY <1>4 DEF Inv, WalkInv
  <2>3. \A p \in Pages : ram[p].ip # 0 => p < cursor
    <3> SUFFICES ASSUME NEW p \in Pages, ram[p].ip # 0, ~ (p < cursor)
                 PROVE  FALSE
      OBVIOUS
    <3>1. p \in Nat /\ p < NumPages
      BY Constants
    <3>2. cursor \in Nat /\ cursor < NumPages /\ ram[cursor].ip = 0
      BY <1>1, <2>2, <3>1
    <3>3. cursor \in Pages /\ cursor < p
      BY <3>1, <3>2, Constants
    <3> QED
      BY <3>2, <3>3 DEF Inv, TableInv, Compact
  <2>4. ASSUME NEW i \in DOMAIN Preload, ~ (i > NumPages)
        PROVE  Contains(advertised, Preload[i].ip)
    <3>1. Stored(i)
      BY <1>1, Constants DEF Inv, BootInv, Preloading, WalkInv, Booted
    <3>2. PICK p \in Pages : ram[p].ip = Preload[i].ip
      BY <2>4, <3>1 DEF Stored
    <3>3. Preload[i].ip # 0 /\ p \in Nat
      BY <3>2, Constants
    <3>4. p < cursor
      BY <2>3, <3>2, <3>3
    <3>5. p + 1 \in 1 .. cursor
      BY <1>1, <3>3, <3>4
    <3>6. advertised[p + 1] = ram[(p + 1) - 1].ip /\ (p + 1) - 1 = p
      BY <1>2, <3>3, <3>5
    <3> QED
      BY <1>2, <3>2, <3>5, <3>6 DEF Contains
  <2> QED
    BY <1>1, <1>3, <2>1, <2>4 DEF AdvertisesHosts
<1>5. CASE reply["main"] # 0
  <2>1. cursor' = cursor + 1 /\ advertised' = Append(advertised, reply["main"])
    BY <1>5
  <2>2. cursor \in Pages /\ reply["main"] = ram[cursor].ip
    BY <1>5 DEF Inv, WalkInv
  <2>3. cursor' \in 0 .. Done /\ cursor' # Done
    BY <1>1, <2>1, <2>2, Constants
  <2>4. /\ advertised' \in Seq(Nat) /\ Len(advertised') = cursor + 1
        /\ \A k \in 1 .. cursor : advertised'[k] = advertised[k]
        /\ advertised'[cursor + 1] = ram[cursor].ip
    BY <1>1, <1>2, <2>1, <2>2
  <2>5. \A k \in 1 .. cursor + 1 : /\ k - 1 \in Pages
                                   /\ advertised'[k] = ram[k - 1].ip /\ ram[k - 1].ip # 0
    <3> SUFFICES ASSUME NEW k \in 1 .. cursor + 1
                 PROVE  k - 1 \in Pages /\ advertised'[k] = ram[k - 1].ip /\ ram[k - 1].ip # 0
      OBVIOUS
    <3>1. CASE k \in 1 .. cursor
      BY <1>2, <2>4, <3>1
    <3>2. CASE k = cursor + 1
      <4>1. k - 1 = cursor
        BY <1>1, <3>2
      <4> QED
        BY <1>5, <2>2, <2>4, <3>2, <4>1
    <3> QED
      BY <1>1, <3>1, <3>2
  <2>6. \A i, j \in 1 .. cursor + 1 : advertised'[i] = advertised'[j] => i = j
    <3> SUFFICES ASSUME NEW i \in 1 .. cursor + 1, NEW j \in 1 .. cursor + 1,
                        advertised'[i] = advertised'[j]
                 PROVE  i = j
      OBVIOUS
    <3>1. /\ i - 1 \in Pages /\ j - 1 \in Pages
          /\ ram[i - 1].ip = ram[j - 1].ip /\ ram[i - 1].ip # 0
      BY <2>5
    <3>2. i - 1 = j - 1
      BY <3>1 DEF Inv, TableInv, Compact
    <3> QED
      BY <1>1, <3>2
  <2>7. DOMAIN advertised' = 1 .. cursor + 1
    BY <2>4
  <2>8. AdvertisesHosts'
    BY <2>3, <2>6, <2>7 DEF AdvertisesHosts
  <2>9. \A k \in 1 .. cursor' : advertised'[k] = ram[k - 1].ip /\ ram[k - 1].ip # 0
    BY <2>1, <2>5
  <2> QED
    BY <2>1, <2>3, <2>4, <2>8, <2>9
<1> QED
  BY <1>4, <1>5

LEMMA UnlockKeepsInv ==
    ASSUME Inv, NEW t \in Threads, Unlock(t)
    PROVE  Inv'
<1> USE DEF mmuVars
<1>1. /\ pc[t] = "unlock" /\ pc' = [pc EXCEPT ![t] = "idle"] /\ call' = [call EXCEPT ![t] = NoCall]
      /\ owner' = IF call[t].kind = "preload" THEN owner ELSE "nobody"
      /\ free' = [free EXCEPT ![t] = None] /\ frame' = [frame EXCEPT ![t] = 0]
      /\ UNCHANGED <<mmuVars, ram, mem, idx, reply, booted>>
      /\ IF call[t].kind # "entryIp" THEN UNCHANGED <<cursor, advertised>>
         ELSE IF reply[t] = 0 THEN cursor' = Done /\ UNCHANGED advertised
         ELSE cursor' = cursor + 1 /\ advertised' = Append(advertised, reply[t])
  BY DEF Unlock
<1>2. ThreadTypes /\ SharedTypes /\ MainTypes
  BY TypeParts DEF Inv
<1>3. /\ 0 \in Pages /\ None \in 0 .. NumPages /\ "idle" \in Steps
      /\ NoCall \in [kind : Kinds, ip : Nat, hop : Nat] /\ NoCall.kind = "none"
  BY Constants DEF None, NoCall, Kinds, Steps
<1>4. /\ pc' \in [Threads -> Steps] /\ pc'[t] = "idle" /\ \A u \in Threads \ {t} : pc'[u] = pc[u]
  BY <1>1, <1>2, <1>3 DEF ThreadTypes
<1>5. /\ call' \in [Threads -> [kind : Kinds, ip : Nat, hop : Nat]] /\ call'[t] = NoCall
      /\ \A u \in Threads \ {t} : call'[u] = call[u]
  BY <1>1, <1>2, <1>3 DEF ThreadTypes
<1>6. free' \in [Threads -> 0 .. NumPages] /\ \A u \in Threads \ {t} : free'[u] = free[u]
  BY <1>1, <1>2, <1>3 DEF ThreadTypes
<1>7. frame' \in [Threads -> Pages] /\ \A u \in Threads \ {t} : frame'[u] = frame[u]
  BY <1>1, <1>2, <1>3 DEF ThreadTypes
<1>8. /\ Working(t) /\ mem[t] = "search"
      /\ call[t].kind \in IF t = "main" THEN {"preload", "entryIp"} ELSE {"learn", "find", "entryHop"}
  BY <1>1 DEF Working, Inv, Calls, CallInv, Touching
<1>9. \A u \in Threads \ {t} : ~ Working(u) /\ mem[u] = "search" /\ owner # u
  BY <1>8, Alone
<1>10. owner' = "nobody"
  <2>1. call[t].kind = "preload" => owner # t
    BY DEF Inv, MutexInv
  <2> QED
    BY <1>1, <1>2, <1>9, <2>1 DEF SharedTypes
<1>11. call[t].kind = "entryIp" =>
         /\ cursor' \in 0 .. Done /\ advertised' \in Seq(Nat)
         /\ cursor' # Done => /\ Len(advertised') = cursor'
                              /\ \A k \in 1 .. cursor' : /\ advertised'[k] = ram[k - 1].ip
                                                         /\ ram[k - 1].ip # 0
         /\ AdvertisesHosts'
  <2>1. call[t].kind = "entryIp" => t = "main"
    BY <1>8
  <2> QED
    BY <1>1, <2>1, WalkGoesOn
<1>12. TypeOK'
  <2>1. ThreadTypes'
    BY <1>1, <1>2, <1>4, <1>5, <1>6, <1>7 DEF ThreadTypes
  <2>2. SharedTypes'
    BY <1>1, <1>2, <1>10 DEF SharedTypes, MmuTypeOK
  <2>3. MainTypes'
    BY <1>1, <1>2, <1>11 DEF MainTypes
  <2> QED
    BY <2>1, <2>2, <2>3, TypePartsNext
<1>13. ~ Preloading' \/ t # "main"
  BY <1>4 DEF Preloading
<1>14. ~ Booted' => ~ Booted /\ t = "main" /\ call[t].kind = "preload"
  <2>1. CASE t = "main"
    <3>1. call[t].kind # "preload" => Booted
      BY <1>8, <2>1 DEF Inv, WalkInv
    <3>2. ~ Booted' => booted # Len(Preload)
      BY <1>1, <1>4, <2>1 DEF Booted
    <3> QED
      BY <2>1, <3>1, <3>2 DEF Booted
  <2>2. CASE t # "main"
    <3>1. Booted
      BY <1>1, <2>2 DEF Inv, MutexInv, Threads
    <3>2. pc'["main"] = pc["main"] /\ call'["main"] = call["main"]
      BY <1>4, <1>5, <2>2, Constants
    <3> QED
      BY <1>1, <3>1, <3>2 DEF Booted
  <2> QED
    BY <2>1, <2>2
<1>15. MutexInv'
  <2>1. \A u \in Threads : ~ Working(u)'
    BY <1>4, <1>9 DEF Working, Touching
  <2>2. ~ Booted' => pc'["listener"] = "idle" /\ cursor' = 0
    <3> SUFFICES ASSUME ~ Booted'
                 PROVE  pc'["listener"] = "idle" /\ cursor' = 0
      OBVIOUS
    <3>1. pc["listener"] = "idle" /\ cursor = 0 /\ t = "main" /\ call[t].kind = "preload"
      BY <1>14 DEF Inv, MutexInv
    <3> QED
      BY <1>1, <1>4, <3>1, Constants
  <2>3. "nobody" \notin Threads
    BY DEF Threads
  <2> QED
    BY <1>10, <2>1, <2>2, <2>3 DEF MutexInv
<1>16. Calls'
  <2>1. \A u \in Threads : u # t => CallInv(u)'
    BY <1>1, <1>4, <1>5, <1>6 DEF Inv, Calls, CallInv, Page
  <2>2. CallInv(t)'
    BY <1>1, <1>3, <1>4, <1>5, <1>8 DEF CallInv, Saves
  <2> QED
    BY <2>1, <2>2 DEF Calls
<1>17. MmuInv'
  <2>1. \A u \in Threads : mem[u] = "search"
    BY <1>8, <1>9
  <2> QED
    BY <1>1, <2>1 DEF Inv, MmuInv
<1>18. Scans'
  <2>1. \A u \in Threads : pc'[u] \notin Touching
    BY <1>4, <1>9 DEF Working, Touching
  <2> QED
    BY <2>1 DEF Scans, ScanInv, Saves, Touching
<1>19. TableInv'
  <2>1. \A u \in Threads : pc[u] # "newHop"
    BY <1>1, <1>9 DEF Working, Touching
  <2> QED
    BY <1>1, <2>1 DEF Inv, TableInv, Compact
<1>20. BootInv'
  <2>1. \A i \in 1 .. booted : Stored(i)
    <3>1. ~ (Preloading /\ pc["main"] \in {"save", "newIp"})
      <4>1. CASE t = "main"
        BY <1>1, <4>1
      <4>2. CASE t # "main"
        BY <1>9, <4>2, Constants DEF Working, Touching
      <4> QED
        BY <4>1, <4>2
    <3> QED
      BY <3>1 DEF Inv, BootInv
  <2>2. \A i \in 1 .. booted : Stored(i)'
    BY <1>1, <2>1 DEF Stored
  <2>3. ~ Preloading'
    <3>1. CASE t = "main"
      BY <1>13, <3>1
    <3>2. CASE t # "main"
      BY <1>14, <3>2 DEF Booted, Preloading
    <3> QED
      BY <3>1, <3>2
  <2> QED
    BY <1>1, <1>14, <2>2, <2>3 DEF Inv, BootInv
<1>21. WalkInv'
  <2>1. CASE call[t].kind = "entryIp"
    <3>1. call'["main"].kind = "none"
      BY <1>3, <1>5, <1>8, <2>1
    <3> QED
      BY <1>1, <1>11, <2>1, <3>1 DEF WalkInv
  <2>2. CASE call[t].kind # "entryIp"
    <3>1. UNCHANGED <<cursor, advertised>>
      BY <1>1, <2>2
    <3>2. ASSUME call'["main"].kind = "entryIp"
          PROVE  /\ call["main"].kind = "entryIp" /\ pc'["main"] = pc["main"] /\ Booted'
                 /\ idx'["main"] = idx["main"] /\ reply'["main"] = reply["main"]
      <4>1. t # "main"
        BY <1>3, <1>5, <3>2
      <4> QED
        BY <1>1, <1>4, <1>5, <1>14, <3>2, <4>1, Constants
    <3>3. AdvertisesHosts'
      BY <3>1 DEF Inv, WalkInv, AdvertisesHosts
    <3> QED
      BY <1>1, <3>1, <3>2, <3>3 DEF Inv, WalkInv
  <2> QED
    BY <2>1, <2>2
<1> QED
  BY <1>12, <1>15, <1>16, <1>17, <1>18, <1>19, <1>20, <1>21 DEF Inv

-----------------------------------------------------------------------------
(* The inductive invariant.                                                 *)

LEMMA InitInv == Init => Inv
<1> SUFFICES ASSUME Init
             PROVE  Inv
  OBVIOUS
<1> USE DEF Init
<1>1. /\ 0 \in Pages /\ 0 \in Slots /\ None \in 0 .. NumPages /\ 0 \in 0 .. NumPages
      /\ 0 \in 0 .. Done /\ 0 # Done /\ 0 \in 0 .. Len(Preload)
  BY Constants DEF None, Done, Slots
<1>2. TypeOK
  <2>1. ThreadTypes
    BY <1>1 DEF ThreadTypes, Steps, Stages, Kinds, NoCall
  <2>2. SharedTypes
    BY <1>1 DEF SharedTypes, MmuTypeOK, InitMMU
  <2>3. MainTypes
    BY <1>1 DEF MainTypes
  <2> QED
    BY <2>1, <2>2, <2>3, TypeParts
<1>3. \A t \in Threads : pc[t] = "idle" /\ call[t] = NoCall /\ mem[t] = "search" /\ idx[t] = 0
  OBVIOUS
<1>4. MutexInv
  BY <1>3, Constants DEF MutexInv, Working, Touching, Threads
<1>5. Calls
  BY <1>3 DEF Calls, CallInv, Saves, NoCall
<1>6. MmuInv
  BY <1>3 DEF MmuInv, InitMMU
<1>7. Scans
  BY <1>3 DEF Scans, ScanInv, Saves
<1>8. TableInv
  BY DEF TableInv, Compact
<1>9. BootInv
  BY <1>3, Constants DEF BootInv, Preloading
<1>10. WalkInv
  BY <1>1, <1>3, Constants DEF WalkInv, AdvertisesHosts, NoCall
<1> QED
  BY <1>2, <1>4, <1>5, <1>6, <1>7, <1>8, <1>9, <1>10 DEF Inv

LEMMA InvStep == Inv /\ [Next]_vars => Inv'
<1> SUFFICES ASSUME Inv, [Next]_vars
             PROVE  Inv'
  OBVIOUS
<1>1. CASE UNCHANGED vars
  <2> USE <1>1 DEF vars, mmuVars, threadVars, mainVars
  <2>1. TypeOK' /\ MutexInv'
    BY DEF Inv, TypeOK, MmuTypeOK, MutexInv, Working, Booted
  <2>2. Calls' /\ MmuInv' /\ Scans'
    BY DEF Inv, Calls, CallInv, Page, MmuInv, Scans, ScanInv, FirstFreePage
  <2>3. TableInv' /\ BootInv' /\ WalkInv'
    BY DEF Inv, TableInv, Compact, BootInv, Booted, Preloading, Stored, WalkInv, AdvertisesHosts
  <2> QED
    BY <2>1, <2>2, <2>3 DEF Inv
<1>2. CASE PreloadHost \/ AdvertiseNext \/ LearnRoute \/ LookUp \/ SendTable
  BY <1>2, PreloadHostKeepsInv, AdvertiseNextKeepsInv, ListenerCallKeepsInv
<1>3. ASSUME NEW t \in Threads, Work(t)
      PROVE  Inv'
  <2>1. CASE Lock(t) \/ Unlock(t)
    BY <2>1, LockKeepsInv, UnlockKeepsInv
  <2>2. CASE Translate(t)
    BY <2>2, TlbHitKeepsInv, TlbMissKeepsInv, RefillKeepsInv DEF Translate
  <2>3. CASE Access(t)
    BY <2>3, FindIpKeepsInv, FindHopKeepsInv, SaveScanKeepsInv, WriteHopKeepsInv, WriteIpKeepsInv,
       EntryKeepsInv DEF Access
  <2> QED
    BY <1>3, <2>1, <2>2, <2>3 DEF Work
<1> QED
  BY <1>1, <1>2, <1>3 DEF Next

LEMMA InvAlways == Spec => []Inv
BY InitInv, InvStep, PTL DEF Spec

-----------------------------------------------------------------------------
(* Theorems.                                                                *)

\* Every index of the table, of the TLB and of memory that the two threads use
\* is in range, for every size of the memory (routingTable.c, mmu.c).
THEOREM TypeCorrect == Spec => []TypeOK
<1>1. Inv => TypeOK
  BY DEF Inv
<1> QED
  BY <1>1, InvAlways, PTL

\* With one mutex around every call, and none before the second thread exists,
\* the TLB always comes out of a call in agreement with the page table ("para
\* no corromper la MMU", README.md:52), for every size of the TLB.
THEOREM MmuStaysIntact == Spec => []MmuIntact
<1>1. Inv => MmuIntact
  <2> SUFFICES ASSUME Inv, owner = "nobody", Booted
               PROVE  TlbCoherent
    BY DEF MmuIntact
  <2>1. ASSUME NEW t \in Threads
        PROVE  mem[t] = "search"
    <3>1. Working(t) => call[t].kind = "preload" /\ pc[t] # "idle" /\ t = "main"
      BY <2>1 DEF Inv, MutexInv, Calls, CallInv, Working, Touching, Threads
    <3>2. ~ Working(t)
      BY <3>1 DEF Booted
    <3> QED
      BY <3>2 DEF Inv, Calls, CallInv, Working
  <2>2. \A i \in Slots : tlb[i].vpn \in Pages
    BY DEF Inv, TypeOK, MmuTypeOK
  <2> QED
    BY <2>1, <2>2, Constants DEF Inv, MmuInv, TlbCoherent
<1> QED
  BY <1>1, InvAlways, PTL

\* The table has no holes and no destination twice at any moment, not even in
\* the middle of a saveRoute (routingTable.h).
THEOREM TableStaysCompact == Spec => []Compact
<1>1. Inv => Compact
  BY DEF Inv, TableInv
<1> QED
  BY <1>1, InvAlways, PTL

\* For every config.txt and whatever the listening thread learns meanwhile, the
\* initial walk advertises each host that the memory has room for, and nothing
\* twice (sendInitialAdvertise, forwarding.h:16-18).
THEOREM HostsAdvertised == Spec => []AdvertisesHosts
<1>1. Inv => AdvertisesHosts
  BY DEF Inv, WalkInv
<1> QED
  BY <1>1, InvAlways, PTL

-----------------------------------------------------------------------------
(* The paged table, searched word by word by two threads, implements the     *)
(* list of routes of RouteStore, on which whole calls act at once.  A call   *)
(* takes effect at its last access: a new route when its next hop is         *)
(* written, an answer when the word that decides it is read.                 *)

\* The destinations and next hops of RouteStore: those of config.txt as well.
StoreIps  == Ips \cup {Preload[i].ip : i \in DOMAIN Preload}
StoreHops == Hops \cup {Preload[i].hop : i \in DOMAIN Preload}

\* The steps of RouteStore.
LEMMA StoreSteps ==
    /\ \A ip \in StoreIps, hop \in StoreHops : Store!Save(ip, hop) => Store!Next
    /\ \A t \in Threads, ip \in StoreIps, hop \in StoreHops : Store!Learn(t, ip, hop) => Store!Next
    /\ \A t \in Threads, ip \in StoreIps : Store!Find(t, ip) => Store!Next
    /\ \A t \in Threads, i \in 1 .. NumPages + 1 :
          (Store!EntryIp(t, i) => Store!Next) /\ (Store!EntryHop(t, i) => Store!Next)
BY DEF Store!Next, StoreIps, StoreHops

-----------------------------------------------------------------------------
(* The routes that are in the table.                                        *)

\* A step that leaves memory alone leaves the routes alone.
LEMMA RoutesStay == UNCHANGED ram => UNCHANGED Routes
BY DEF Routes

\* Unless a route is being written, every page with a destination is a route,
\* and there are no others.
LEMMA RoutesOfPages ==
    ASSUME Inv, \A u \in Threads : pc[u] # "newHop"
    PROVE  /\ \A p \in Pages : p + 1 \in DOMAIN Routes <=> ram[p].ip # 0
           /\ \A p \in Pages : ram[p].ip # 0 => Routes[p + 1] = ram[p]
           /\ \A i \in DOMAIN Routes : /\ i - 1 \in Pages /\ i = (i - 1) + 1 /\ i \in 1 .. NumPages
                                       /\ Routes[i] = ram[i - 1] /\ ram[i - 1].ip # 0
<1>1. \A p \in Pages : ram[p].ip # 0 <=> ram[p].hop # 0
  BY DEF Inv, TableInv
<1>2. \A p \in Pages : p + 1 \in 1 .. NumPages /\ (p + 1) - 1 = p
  BY Constants
<1>3. \A i \in 1 .. NumPages : i - 1 \in Pages /\ i = (i - 1) + 1
  BY Constants
<1> QED
  BY <1>1, <1>2, <1>3 DEF Routes

\* What RouteStore finds is what the table holds: there is one page at most.
LEMMA HasAndHopOf ==
    ASSUME Inv, \A u \in Threads : pc[u] # "newHop", NEW ip \in Nat \ {0}
    PROVE  /\ Store!Has(ip) <=> \E p \in Pages : ram[p].ip = ip
           /\ \A p \in Pages : ram[p].ip = ip => Store!HopOf(ip) = ram[p].hop
<1>1. Store!Has(ip) <=> \E p \in Pages : ram[p].ip = ip
  BY RoutesOfPages DEF Store!Has
<1>2. ASSUME NEW p \in Pages, ram[p].ip = ip
      PROVE  Store!HopOf(ip) = ram[p].hop
  <2>1. p + 1 \in DOMAIN Routes /\ Routes[p + 1] = ram[p]
    BY <1>2, RoutesOfPages
  <2>2. \A i \in DOMAIN Routes : Routes[i].ip = ip => i = p + 1
    BY <1>2, RoutesOfPages DEF Inv, TableInv, Compact
  <2>3. (CHOOSE i \in DOMAIN Routes : Routes[i].ip = ip) = p + 1
    BY <1>2, <2>1, <2>2
  <2> QED
    BY <2>1, <2>3 DEF Store!HopOf
<1> QED
  BY <1>1, <1>2

\* The same for a thread that works but does not write a route.
LEMMA NobodyWrites ==
    ASSUME Inv, NEW t \in Threads, Working(t), pc[t] # "newHop"
    PROVE  \A u \in Threads : pc[u] # "newHop"
BY Alone DEF Working, Touching

\* What a call looks for is one of RouteStore's destinations and next hops.
LEMMA CallArguments ==
    ASSUME Inv, NEW t \in Threads
    PROVE  /\ call[t].kind \in {"learn", "find"} => call[t].ip \in StoreIps
           /\ call[t].kind = "learn" => call[t].hop \in StoreHops
           /\ call[t].kind = "preload" => call[t].ip \in StoreIps /\ call[t].hop \in StoreHops
<1>1. call[t].kind = "learn" => call[t].hop \in StoreHops
  BY DEF Inv, Calls, CallInv, StoreHops
<1>2. call[t].kind \in {"learn", "find"} => call[t].ip \in StoreIps
  BY DEF Inv, Calls, CallInv, StoreIps
<1>3. ASSUME call[t].kind = "preload"
      PROVE  call[t].ip \in StoreIps /\ call[t].hop \in StoreHops
  <2>1. t = "main" /\ Preloading
    BY <1>3 DEF Inv, Calls, CallInv, NoCall, Preloading, Threads
  <2>2. booted \in DOMAIN Preload
    BY <2>1, TypeParts, Constants DEF Inv, BootInv, MainTypes
  <2> QED
    BY <2>1, <2>2 DEF Inv, BootInv, StoreIps, StoreHops
<1> QED
  BY <1>1, <1>2, <1>3

-----------------------------------------------------------------------------
(* The steps.  Simulates: a step of RouteStore, or none.                    *)

Simulates == Store!Next \/ UNCHANGED Store!storeVars

LEMMA StutterSimulates == UNCHANGED <<ram, reply>> => Simulates
BY RoutesStay DEF Simulates, Store!storeVars

\* findRoute: a destination that no page holds is absent.
LEMMA FindIpSimulates ==
    ASSUME Inv, NEW t \in Threads, FindIp(t)
    PROVE  Simulates
<1>1. pc[t] = "find" /\ mem[t] = "access" /\ UNCHANGED ram
  BY DEF FindIp, Accessing
<1>2. Working(t) /\ idx[t] \in Pages /\ Word(t) = ram[idx[t]]
  BY <1>1, WordOfPage DEF Page
<1>3. call[t].kind \in {"learn", "find", "entryHop"} /\ call[t].ip \in Nat \ {0}
  BY <1>1, TypeParts DEF Inv, Calls, CallInv, ThreadTypes
<1>4. CASE UNCHANGED reply
  BY <1>1, <1>4, StutterSimulates
<1>5. CASE Word(t).ip # call[t].ip /\ idx[t] = NumPages - 1 /\ call[t].kind # "learn" /\ Return(t, 0)
  <2>1. reply' = [reply EXCEPT ![t] = 0] /\ UNCHANGED Routes
    BY <1>1, <1>5, RoutesStay DEF Return
  <2>2. ASSUME call[t].kind = "find"
        PROVE  Simulates
    <3>1. \A q \in Pages : ram[q].ip # call[t].ip
      <4>1. \A q \in Pages : q < idx[t] => ram[q].ip # call[t].ip
        BY <1>1 DEF Inv, Scans, ScanInv
      <4>2. \A q \in Pages : q < idx[t] \/ q = idx[t]
        BY <1>5, Constants
      <4> QED
        BY <1>2, <1>5, <4>1, <4>2
    <3>2. ~ Store!Has(call[t].ip)
      BY <1>1, <1>2, <1>3, <3>1, NobodyWrites, HasAndHopOf
    <3>3. Store!Find(t, call[t].ip)
      BY <2>1, <3>2 DEF Store!Find, Store!Absent
    <3> QED
      BY <2>2, <3>3, CallArguments, StoreSteps DEF Simulates
  <2>3. ASSUME call[t].kind = "entryHop"
        PROVE  Simulates
    <3>1. NumPages + 1 \in 1 .. NumPages + 1 /\ NumPages + 1 \notin DOMAIN Routes
      BY Constants DEF Routes
    <3>2. Store!EntryHop(t, NumPages + 1)
      BY <2>1, <3>1 DEF Store!EntryHop, Store!Absent
    <3> QED
      BY <3>1, <3>2, StoreSteps DEF Simulates
  <2> QED
    BY <1>3, <1>5, <2>2, <2>3
<1> QED
  BY <1>3, <1>4, <1>5 DEF FindIp, ToSave

\* The next hop of the page that matched is the answer; learnRoute is told
\* that it knew the route.
LEMMA FindHopSimulates ==
    ASSUME Inv, NEW t \in Threads, FindHop(t)
    PROVE  Simulates
<1> DEFINE p == idx[t]
<1>1. pc[t] = "findHop" /\ mem[t] = "access" /\ UNCHANGED ram
  BY DEF FindHop, Accessing
<1>2. Working(t) /\ p \in Pages /\ Word(t) = ram[p]
  BY <1>1, WordOfPage DEF Page
<1>3. /\ call[t].kind \in {"learn", "find", "entryHop"} /\ call[t].ip \in Nat \ {0}
      /\ ram[p].ip = call[t].ip
  BY <1>1, TypeParts DEF Inv, Calls, CallInv, Scans, ScanInv, ThreadTypes
<1>4. /\ Store!Has(call[t].ip) /\ Store!HopOf(call[t].ip) = ram[p].hop
      /\ p + 1 \in DOMAIN Routes /\ Routes[p + 1] = ram[p] /\ p + 1 \in 1 .. NumPages + 1
  <2>1. \A u \in Threads : pc[u] # "newHop"
    BY <1>1, <1>2, NobodyWrites
  <2>2. p + 1 \in 1 .. NumPages + 1
    BY <1>2, Constants
  <2> QED
    BY <1>2, <1>3, <2>1, <2>2, HasAndHopOf, RoutesOfPages
<1>5. UNCHANGED Routes
  BY <1>1, RoutesStay
<1>6. CASE call[t].kind = "find" /\ Return(t, Word(t).hop)
  <2>1. Store!Find(t, call[t].ip)
    BY <1>2, <1>4, <1>5, <1>6 DEF Store!Find, Return
  <2> QED
    BY <1>6, <2>1, CallArguments, StoreSteps DEF Simulates
<1>7. CASE call[t].kind = "entryHop" /\ Return(t, Word(t).hop)
  <2>1. Store!EntryHop(t, p + 1)
    BY <1>2, <1>4, <1>5, <1>7 DEF Store!EntryHop, Return
  <2> QED
    BY <1>4, <2>1, StoreSteps DEF Simulates
<1>8. CASE call[t].kind = "learn" /\ Word(t).hop = call[t].hop /\ Return(t, 0)
  <2>1. Store!Learn(t, call[t].ip, call[t].hop)
    BY <1>2, <1>4, <1>5, <1>8 DEF Store!Learn, Return
  <2> QED
    BY <1>8, <2>1, CallArguments, StoreSteps DEF Simulates
<1>9. CASE ToSave(t)
  BY <1>1, <1>9, StutterSimulates DEF ToSave
<1> QED
  BY <1>3, <1>6, <1>7, <1>8, <1>9 DEF FindHop

\* A table whose first n pages, and no others, hold a route is a list of n.
LEMMA RoutesAreAList ==
    ASSUME Inv, NEW n \in 0 .. NumPages,
           \A p \in Pages : ram[p].hop # 0 <=> p < n
    PROVE  /\ DOMAIN Routes = 1 .. n /\ Routes \in Seq([ip : Nat, hop : Nat]) /\ Len(Routes) = n
           /\ \A i \in 1 .. n : i - 1 \in Pages /\ Routes[i] = ram[i - 1]
<1>1. n \in Nat /\ \A k \in 1 .. NumPages : k - 1 \in Pages /\ (k - 1 < n <=> k <= n)
  BY Constants
<1>2. {k \in 1 .. NumPages : ram[k - 1].hop # 0} = 1 .. n
  BY <1>1, Constants
<1>3. ram \in [Pages -> [ip : Nat, hop : Nat]]
  BY TypeParts DEF Inv, SharedTypes
<1>4. \A i \in 1 .. n : i \in 1 .. NumPages /\ i - 1 \in Pages /\ ram[i - 1] \in [ip : Nat, hop : Nat]
  BY <1>1, <1>2, <1>3
<1>5. Routes = [i \in 1 .. n |-> ram[i - 1]]
  BY <1>2 DEF Routes
<1>6. Routes \in [1 .. n -> [ip : Nat, hop : Nat]]
  BY <1>4, <1>5
<1>7. Routes \in Seq([ip : Nat, hop : Nat])
  <2> DEFINE R == [ip : Nat, hop : Nat]
  <2>1. Routes \in [1 .. n -> R]
    BY <1>6
  <2> HIDE DEF R
  <2>2. Routes \in Seq(R)
    BY <1>1, <2>1, SeqDef
  <2> QED
    BY <2>2 DEF R
<1>8. Len(Routes) = n
  BY <1>1, <1>6, <1>7, LenProperties
<1> QED
  BY <1>4, <1>5, <1>7, <1>8

\* saveRoute reads only, and a full table drops the route: it is news all the
\* same.
LEMMA SaveScanSimulates ==
    ASSUME Inv, NEW t \in Threads, SaveScan(t)
    PROVE  Simulates
<1>1. pc[t] = "save" /\ mem[t] = "access" /\ UNCHANGED <<ram, call>>
  BY DEF SaveScan, Accessing
<1>2. CASE UNCHANGED reply
  BY <1>1, <1>2, StutterSimulates
<1>3. CASE /\ Word(t).ip # call[t].ip /\ idx[t] = NumPages - 1 /\ FirstFree(t) = None
           /\ call[t].kind = "learn" /\ Return(t, 1)
  <2>1. Working(t) /\ idx[t] \in Pages /\ Word(t) = ram[idx[t]]
    BY <1>1, WordOfPage DEF Page
  <2>2. call[t].ip \in Nat \ {0}
    BY <1>1, SaveKnows DEF Saves
  <2>3. \A q \in Pages : ~ (q < idx[t]) => q = idx[t]
    BY <1>3, Constants
  <2>4. \A q \in Pages : ram[q].ip # call[t].ip
    <3>1. \A q \in Pages : q < idx[t] => ram[q].ip # call[t].ip
      BY <1>1 DEF Inv, Scans, ScanInv
    <3> QED
      BY <1>3, <2>1, <2>3, <3>1
  <2>5. \A q \in Pages : ram[q].ip # 0
    <3>1. Word(t).ip # 0 /\ free[t] = None
      BY <1>3, <2>1, Constants DEF FirstFree, None
    <3>2. \A q \in Pages : q < idx[t] => ram[q].ip # 0
      BY <1>1, <3>1 DEF Inv, Scans, ScanInv
    <3> QED
      BY <2>1, <2>3, <3>1, <3>2
  <2>6. \A u \in Threads : pc[u] # "newHop"
    BY <1>1, <2>1, NobodyWrites
  <2>7. ~ Store!Has(call[t].ip)
    BY <2>2, <2>4, <2>6, HasAndHopOf
  <2>8. Len(Routes) = NumPages
    <3>1. \A q \in Pages : ram[q].hop # 0 <=> q < NumPages
      BY <2>5, <2>6, Constants DEF Inv, TableInv
    <3> QED
      BY <3>1, Constants, RoutesAreAList
  <2>9. UNCHANGED Routes
    BY <1>1, RoutesStay
  <2>10. Store!Saved(call[t].ip, call[t].hop) = Routes
    BY <2>7, <2>8, Constants DEF Store!Saved
  <2>11. Store!Learn(t, call[t].ip, call[t].hop)
    BY <1>3, <2>7, <2>9, <2>10 DEF Store!Learn, Return
  <2> QED
    BY <1>3, <2>11, CallArguments, StoreSteps DEF Simulates
<1> QED
  BY <1>2, <1>3 DEF SaveScan, Saved

\* A destination without a next hop is not a route yet.
LEMMA WriteIpSimulates ==
    ASSUME Inv, NEW t \in Threads, WriteIp(t)
    PROVE  Simulates
<1>1. /\ pc[t] = "newIp" /\ mem[t] = "access" /\ UNCHANGED reply
      /\ ram' = [ram EXCEPT ![frame[t]].ip = call[t].ip]
  BY DEF WriteIp, Accessing
<1>2. ram \in [Pages -> [ip : Nat, hop : Nat]]
  BY TypeParts DEF Inv, SharedTypes
<1>3. frame[t] = free[t] /\ free[t] \in Pages
  BY <1>1, WordOfPage DEF Page
<1>4. ram[free[t]].hop = 0
  BY <1>1, <1>3 DEF Inv, Scans, ScanInv, FirstFreePage, TableInv
<1>5. /\ \A p \in Pages : ram'[p].hop = ram[p].hop
      /\ \A p \in Pages : ram[p].hop # 0 => ram'[p] = ram[p]
  BY <1>1, <1>2, <1>3, <1>4
<1>6. \A k \in 1 .. NumPages : k - 1 \in Pages
  BY Constants
<1>7. {k \in 1 .. NumPages : ram'[k - 1].hop # 0} = {k \in 1 .. NumPages : ram[k - 1].hop # 0}
  BY <1>5, <1>6
<1>8. UNCHANGED Routes
  BY <1>5, <1>6, <1>7 DEF Routes
<1> QED
  BY <1>1, <1>8 DEF Simulates, Store!storeVars

\* getRouteIp: the end of the table, or a destination.
LEMMA EntrySimulates ==
    ASSUME Inv, NEW t \in Threads, EntryOf(t)
    PROVE  Simulates
<1>1. UNCHANGED Routes /\ UNCHANGED ram
  BY RoutesStay DEF EntryOf
<1>2. CASE Return(t, 0)
  <2>1. NumPages + 1 \in 1 .. NumPages + 1 /\ NumPages + 1 \notin DOMAIN Routes
    BY Constants DEF Routes
  <2>2. Store!EntryIp(t, NumPages + 1)
    BY <1>1, <1>2, <2>1 DEF Store!EntryIp, Store!Absent, Return
  <2> QED
    BY <2>1, <2>2, StoreSteps DEF Simulates
<1>3. CASE Accessing(t, "entry") /\ Word(t).ip # 0 /\ Return(t, Word(t).ip)
  <2>1. Working(t) /\ idx[t] \in Pages /\ Word(t) = ram[idx[t]] /\ pc[t] = "entry"
    BY <1>3, WordOfPage DEF Page, Accessing
  <2>2. idx[t] + 1 \in DOMAIN Routes /\ Routes[idx[t] + 1] = ram[idx[t]]
    BY <1>3, <2>1, NobodyWrites, RoutesOfPages
  <2>3. idx[t] + 1 \in 1 .. NumPages + 1
    BY <2>1, Constants
  <2>4. Store!EntryIp(t, idx[t] + 1)
    BY <1>1, <1>3, <2>1, <2>2 DEF Store!EntryIp, Return
  <2> QED
    BY <2>3, <2>4, StoreSteps DEF Simulates
<1>4. CASE UNCHANGED reply
  BY <1>1, <1>4, StutterSimulates
<1> QED
  BY <1>2, <1>3, <1>4 DEF EntryOf, Entry

\* What a saveRoute that has written its route replies, and to whom.
LEMMA SavedSimulates ==
    ASSUME Inv, NEW t \in Threads, pc[t] \in Saves, mem[t] = "access", Saved(t),
           Routes' = Store!Saved(call[t].ip, call[t].hop),
           call[t].kind = "learn" =>
               ~ (Store!Has(call[t].ip) /\ Store!HopOf(call[t].ip) = call[t].hop)
    PROVE  Simulates
<1>1. CASE call[t].kind = "learn"
  <2>1. Store!Learn(t, call[t].ip, call[t].hop)
    BY <1>1 DEF Store!Learn, Saved, Return
  <2> QED
    BY <1>1, <2>1, CallArguments, StoreSteps DEF Simulates
<1>2. CASE call[t].kind = "preload"
  <2>1. Store!Save(call[t].ip, call[t].hop)
    BY <1>2 DEF Store!Save, Saved
  <2> QED
    BY <1>2, <2>1, CallArguments, StoreSteps DEF Simulates
<1> QED
  BY <1>1, <1>2, SaveKnows

\* A next hop is written to the route that has the destination already...
LEMMA UpdateSimulates ==
    ASSUME Inv, NEW t \in Threads, Accessing(t, "saveHop"), WriteHop(t)
    PROVE  Simulates
<1> DEFINE p == idx[t]
           ip == call[t].ip
           hop == call[t].hop
<1>1. /\ pc[t] = "saveHop" /\ mem[t] = "access" /\ Saved(t)
      /\ ram' = [ram EXCEPT ![frame[t]].hop = hop]
  BY DEF WriteHop, Accessing
<1>2. Working(t) /\ p \in Pages /\ frame[t] = p /\ ram[p].ip = ip
  BY <1>1, WordOfPage DEF Page, Inv, Scans, ScanInv
<1>3. ip \in Nat \ {0} /\ hop \in Nat \ {0}
  BY <1>1, SaveKnows DEF Saves
<1>4. ram \in [Pages -> [ip : Nat, hop : Nat]]
  BY TypeParts DEF Inv, SharedTypes
<1>5. ram'[p] = [ip |-> ip, hop |-> hop] /\ \A q \in Pages \ {p} : ram'[q] = ram[q]
  BY <1>1, <1>2, <1>4
<1>6. \A u \in Threads : pc[u] # "newHop"
  BY <1>1, <1>2, NobodyWrites
<1>7. Store!Has(ip) /\ Store!HopOf(ip) = ram[p].hop
  BY <1>2, <1>3, <1>6, HasAndHopOf
<1>8. p + 1 \in DOMAIN Routes /\ Routes[p + 1].ip = ip
  BY <1>2, <1>3, <1>6, RoutesOfPages
<1>9. DOMAIN Routes' = DOMAIN Routes
  <2>1. \A k \in 1 .. NumPages : k - 1 \in Pages
    BY Constants
  <2>2. ram[p].hop # 0
    BY <1>2, <1>3, <1>6 DEF Inv, TableInv
  <2>3. \A q \in Pages : ram'[q].hop # 0 <=> ram[q].hop # 0
    BY <1>3, <1>5, <2>2
  <2> QED
    BY <2>1, <2>3 DEF Routes
<1>10. ASSUME NEW i \in DOMAIN Routes
       PROVE  Routes'[i] = IF Routes[i].ip = ip THEN [ip |-> ip, hop |-> hop] ELSE Routes[i]
  <2>1. i - 1 \in Pages /\ i = (i - 1) + 1 /\ Routes[i] = ram[i - 1]
    BY <1>6, RoutesOfPages
  <2>2. Routes'[i] = ram'[i - 1]
    BY <1>9 DEF Routes
  <2>3. Routes[i].ip = ip <=> i - 1 = p
    BY <1>2, <1>3, <2>1 DEF Inv, TableInv, Compact
  <2> QED
    BY <1>5, <2>1, <2>2, <2>3
<1>11. Routes' = [i \in DOMAIN Routes' |-> Routes'[i]]
  BY DEF Routes
<1>12. Routes' = Store!Saved(ip, hop)
  BY <1>7, <1>9, <1>10, <1>11 DEF Store!Saved
<1>13. call[t].kind = "learn" => Store!HopOf(ip) # hop
  <2>1. pc[t] \in Saves /\ call[t].kind = "learn" =>
           \A q \in Pages : ram[q].ip = call[t].ip => ram[q].hop # call[t].hop
    BY DEF Inv, Scans, ScanInv
  <2> QED
    BY <1>1, <1>2, <1>7, <2>1 DEF Saves
<1> QED
  BY <1>1, <1>12, <1>13, SavedSimulates DEF Saves

\* ...or completes a new route, at the end of the list.
LEMMA AppendSimulates ==
    ASSUME Inv, NEW t \in Threads, Accessing(t, "newHop"), WriteHop(t)
    PROVE  Simulates
<1> DEFINE p == free[t]
           ip == call[t].ip
           hop == call[t].hop
           R == [ip : Nat, hop : Nat]
<1>1. /\ pc[t] = "newHop" /\ mem[t] = "access" /\ Saved(t)
      /\ ram' = [ram EXCEPT ![frame[t]].hop = hop]
  BY DEF WriteHop, Accessing
<1>2. /\ Working(t) /\ p \in Pages /\ frame[t] = p /\ ram[p] = [ip |-> ip, hop |-> 0]
      /\ \A q \in Pages : p < q => ram[q].ip = 0
  BY <1>1, WordOfPage DEF Page, Inv, Scans, ScanInv
<1>3. ip \in Nat \ {0} /\ hop \in Nat \ {0}
  BY <1>1, SaveKnows DEF Saves
<1>4. ram \in [Pages -> R]
  BY TypeParts DEF Inv, SharedTypes
<1>5. ram'[p] = [ip |-> ip, hop |-> hop] /\ \A q \in Pages \ {p} : ram'[q] = ram[q]
  BY <1>1, <1>2, <1>4
<1>6. \A q \in Pages : ram[q].hop # 0 <=> q < p
  <2>1. \A q \in Pages : q < p \/ q = p \/ p < q
    BY <1>2, Constants
  <2>2. ~ (p < p)
    BY <1>2, Constants
  <2>3. ASSUME NEW q \in Pages, q < p
        PROVE  ram[q].hop # 0
    <3>1. ram[q].ip # 0
      BY <1>2, <1>3, <2>3 DEF Inv, TableInv, Compact
    <3>2. \A u \in Threads \ {t} : pc[u] # "newHop"
      BY <1>2, Alone DEF Working, Touching
    <3> QED
      BY <2>2, <2>3, <3>1, <3>2 DEF Inv, TableInv
  <2>4. ASSUME NEW q \in Pages, p < q
        PROVE  ram[q].hop = 0 /\ ~ (q < p)
    BY <1>2, <2>4, Constants DEF Inv, TableInv
  <2> QED
    BY <1>2, <2>1, <2>2, <2>3, <2>4
<1>7. p \in 0 .. NumPages /\ p < NumPages
  BY <1>2, Constants
<1>8. /\ DOMAIN Routes = 1 .. p /\ Routes \in Seq(R) /\ Len(Routes) = p
      /\ \A i \in 1 .. p : i - 1 \in Pages /\ Routes[i] = ram[i - 1]
  BY <1>6, <1>7, RoutesAreAList
<1>9. ~ Store!Has(ip)
  <2>1. ASSUME NEW i \in 1 .. p, Routes[i].ip = ip
        PROVE  FALSE
    <3>1. i - 1 \in Pages /\ ram[i - 1].ip = ip /\ i - 1 # p
      BY <1>7, <1>8, <2>1
    <3> QED
      BY <1>2, <1>3, <3>1 DEF Inv, TableInv, Compact
  <2> QED
    BY <1>8, <2>1 DEF Store!Has
<1>10. Routes' = [i \in 1 .. p + 1 |-> ram'[i - 1]]
  <2>1. \A k \in 1 .. NumPages : k - 1 \in Pages
    BY Constants
  <2>2. \A q \in Pages : ram'[q].hop # 0 <=> q < p \/ q = p
    BY <1>3, <1>5, <1>6
  <2>3. 1 .. p + 1 \subseteq 1 .. NumPages
    BY <1>7, Constants
  <2>4. \A k \in 1 .. NumPages : k - 1 < p \/ k - 1 = p <=> k \in 1 .. p + 1
    BY <1>7
  <2>5. {k \in 1 .. NumPages : ram'[k - 1].hop # 0} = 1 .. p + 1
    BY <2>1, <2>2, <2>3, <2>4
  <2> QED
    BY <2>5 DEF Routes
<1>11. Append(Routes, [ip |-> ip, hop |-> hop]) = [i \in 1 .. p + 1 |-> ram'[i - 1]]
  <2>1. \A i \in 1 .. p : ram'[i - 1] = Routes[i]
    <3>1. \A i \in 1 .. p : i - 1 # p
      BY <1>7
    <3> QED
      BY <1>5, <1>8, <3>1
  <2>2. ram'[(p + 1) - 1] = [ip |-> ip, hop |-> hop]
    BY <1>5, <1>7
  <2>3. Append(Routes, [ip |-> ip, hop |-> hop]) =
           [i \in 1 .. p + 1 |-> IF i = p + 1 THEN [ip |-> ip, hop |-> hop] ELSE Routes[i]]
    BY <1>7, <1>8
  <2>4. \A i \in 1 .. p + 1 : i \in 1 .. p \/ i = p + 1
    BY <1>7
  <2> QED
    BY <2>1, <2>2, <2>3, <2>4
<1>12. Routes' = Store!Saved(ip, hop)
  BY <1>7, <1>8, <1>9, <1>10, <1>11 DEF Store!Saved
<1> QED
  BY <1>1, <1>9, <1>12, SavedSimulates DEF Saves

-----------------------------------------------------------------------------
(* The refinement.                                                          *)

LEMMA StoreInit == Init => Store!Init
<1> SUFFICES ASSUME Init
             PROVE  Store!Init
  OBVIOUS
<1>1. \A k \in 1 .. NumPages : k - 1 \in Pages
  BY Constants
<1>2. {k \in 1 .. NumPages : ram[k - 1].hop # 0} = {}
  BY <1>1 DEF Init
<1>3. Routes = << >>
  BY <1>2 DEF Routes
<1> QED
  BY <1>3 DEF Init, Store!Init, Store!Absent

LEMMA StoreStep == Inv /\ [Next]_vars => [Store!Next]_Store!storeVars
<1> SUFFICES ASSUME Inv, [Next]_vars
             PROVE  Simulates
  BY DEF Simulates
<1>1. CASE UNCHANGED vars
  BY <1>1, StutterSimulates DEF vars, threadVars
<1>2. CASE PreloadHost \/ AdvertiseNext \/ LearnRoute \/ LookUp \/ SendTable
  BY <1>2, StutterSimulates DEF PreloadHost, AdvertiseNext, LearnRoute, LookUp, SendTable, Begin
<1>3. ASSUME NEW t \in Threads, Work(t)
      PROVE  Simulates
  <2>1. CASE Lock(t)
    BY <2>1, StutterSimulates DEF Lock
  <2>2. CASE Translate(t)
    BY <2>2, StutterSimulates DEF Translate, TlbHit, TlbMiss, Refill, At
  <2>3. CASE Access(t)
    <3>1. CASE WriteHop(t)
      BY <3>1, UpdateSimulates, AppendSimulates DEF WriteHop
    <3> QED
      BY <2>3, <3>1, FindIpSimulates, FindHopSimulates, SaveScanSimulates, WriteIpSimulates, EntrySimulates
      DEF Access
  <2>4. CASE Unlock(t)
    BY <2>4, StutterSimulates DEF Unlock
  <2> QED
    BY <1>3, <2>1, <2>2, <2>3, <2>4 DEF Work
<1> QED
  BY <1>1, <1>2, <1>3 DEF Next

\* The calls of routingTable.c under tableMutex (forwarding.c) look as if each
\* happened at once on a list of routes: no answer of findRoute, getRouteIp or
\* learnRoute comes from a table half-way through another call, whatever the
\* sizes of the table and the TLB and whatever config.txt says.
THEOREM TableImplementsStore == Spec => ImplementsStore
<1>1. Init => Store!Init
  BY StoreInit
<1>2. Inv /\ [Next]_vars => [Store!Next]_Store!storeVars
  BY StoreStep
<1> QED
  BY <1>1, <1>2, InvAlways, PTL DEF Spec, ImplementsStore, Store!Spec
=============================================================================

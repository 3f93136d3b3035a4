-------------------------- MODULE WubuMerge_proofs --------------------------
(***************************************************************************)
(* Theorems about WubuMerge, for every set of nodes and processes, and any *)
(* number of invocations, facts, bundles and edits.                        *)
(***************************************************************************)
EXTENDS WubuMerge, FiniteSetTheorems, TLAPS

-----------------------------------------------------------------------------
(* Shapes *)

Identities == [node : Nodes, strict : BOOLEAN, stamped : BOOLEAN]
Packets == [identity : Identities, signature : Seq(Identities)]
Bundles ==
  [slug : Nodes, packet : Packets, signature : Seq(Packets), facts : Seq(Claims),
   articles : Seq(Claims)]

Places ==
  {"idle", "add", "fetch", "synced", "open", "dump", "facts", "articles", "persona", "merged"}

Processes ==
  [pc : Places, op : {"none", "add", "import", "sync", "merge"}, mem : PeerFiles,
   slug : Seq(Nodes), packet : Seq(Packets), todo : Seq(Claims), facts : Seq(Claims),
   articles : Seq(Claims), accepted : Nat, rejected : Nat, left : SUBSET Nodes]

Shapes ==
  /\ file \in [Nodes -> Seq(PeerFiles)]
  /\ wiki \in [Nodes -> [Keys -> Seq(Stored)]]
  /\ articles \in [Nodes -> [Keys -> Seq(Stored)]]
  /\ bundles \subseteq Bundles
  /\ proc \in [Procs -> Processes]
  /\ known \in [Nodes -> SUBSET Nodes] /\ reachable \in [Nodes -> SUBSET Nodes]
  /\ vouched \in [Nodes -> SUBSET Nodes]
  /\ earned \in [Nodes -> [Nodes -> Nat]]
  /\ disturbed \in [Nodes -> BOOLEAN]
  /\ others \in [Procs -> SUBSET Keys]

\* What the place of a process says about its locals: the peer it works on is
\* named and, once added or found, in memory; an import may go on without it.
Holding == {"open", "dump", "persona", "merged"}

Placed(r) ==
  /\ r.pc \notin {"idle", "synced"} => r.slug # <<>>
  /\ r.pc = "add" => r.op \in {"add", "import"} /\ r.packet # <<>>
  /\ r.pc \in Holding => r.mem[r.slug[1]] # <<>>
  /\ r.pc = "facts" /\ r.op # "import" => r.mem[r.slug[1]] # <<>>
  /\ r.pc \in {"fetch", "synced", "persona", "merged"} => r.op \in {"sync", "merge"}
  /\ r.pc = "facts" => r.op \in {"import", "sync", "merge"}
  /\ r.pc = "articles" => r.op = "import"
  /\ r.pc # "idle" => r.op # "none"
  /\ r.pc # "facts" /\ r.op \in {"sync", "merge"} => r.todo = <<>>

Typed == Shapes /\ \A p \in Procs : Placed(proc[p])

\* A sequence of one element, which stands for an optional value.
LEMMA Singleton ==
  ASSUME NEW S, NEW x \in S
  PROVE  <<x>> \in Seq(S) /\ <<x>> # <<>> /\ <<x>>[1] = x
  OBVIOUS

LEMMA EmptySeqShape == ASSUME NEW S PROVE <<>> \in Seq(S)
  OBVIOUS

LEMMA FunctionIsSeq ==
  ASSUME NEW S, NEW n \in Nat, NEW f \in [1..n -> S]
  PROVE  f \in Seq(S) /\ DOMAIN f = 1..n
  OBVIOUS

\* The element of an optional value that is there.
LEMMA TheOne ==
  ASSUME NEW S, NEW q \in Seq(S), q # <<>>
  PROVE  q[1] \in S
  OBVIOUS

\* Nobody known, and a process that does not run, have their shapes.
LEMMA IdleShape == NoPeers \in PeerFiles /\ Idle \in Processes /\ Placed(Idle)
  <1>1. NoPeers \in PeerFiles
    BY DEF NoPeers, PeerFiles
  <1> QED
    BY <1>1 DEF Idle, Processes, Places, Placed, Holding

\* A peer whose trust is changed.
LEMMA WithTrustShape ==
  ASSUME NEW peers \in PeerFiles, NEW slug \in Nodes, peers[slug] # <<>>,
         NEW new \in VeryLow..Full
  PROVE  /\ WithTrust(peers, slug, new) \in PeerFiles
         /\ WithTrust(peers, slug, new)[slug] # <<>>
         /\ WithTrust(peers, slug, new)[slug][1].trust = new
         /\ WithTrust(peers, slug, new)[slug][1].endpoint = peers[slug][1].endpoint
         /\ \A s \in Nodes : s # slug => WithTrust(peers, slug, new)[s] = peers[s]
  <1> DEFINE peer == [peers[slug][1] EXCEPT !.trust = new]
  <1>1. peers[slug][1] \in Peers
    BY DEF PeerFiles
  <1>2. peer \in Peers /\ peer.trust = new /\ peer.endpoint = peers[slug][1].endpoint
    BY <1>1 DEF Peers
  <1>3. WithTrust(peers, slug, new) = [peers EXCEPT ![slug] = <<peer>>]
    BY DEF WithTrust
  <1>4. <<peer>> \in Seq(Peers) /\ <<peer>> # <<>> /\ <<peer>>[1] = peer
    BY <1>2, Singleton
  <1> HIDE DEF peer
  <1>5. WithTrust(peers, slug, new) \in PeerFiles
    BY <1>3, <1>4 DEF PeerFiles
  <1>6. WithTrust(peers, slug, new)[slug] = <<peer>>
    BY <1>3 DEF PeerFiles
  <1>7. \A s \in Nodes : s # slug => WithTrust(peers, slug, new)[s] = peers[s]
    BY <1>3 DEF PeerFiles
  <1> QED
    BY <1>2, <1>4, <1>5, <1>6, <1>7

\* A peer that is given an endpoint.
LEMMA WithEndpointShape ==
  ASSUME NEW peers \in PeerFiles, NEW slug \in Nodes, peers[slug] # <<>>
  PROVE  /\ WithEndpoint(peers, slug) \in PeerFiles
         /\ WithEndpoint(peers, slug)[slug] # <<>>
         /\ WithEndpoint(peers, slug)[slug][1].endpoint
         /\ WithEndpoint(peers, slug)[slug][1].trust = peers[slug][1].trust
         /\ \A s \in Nodes : s # slug => WithEndpoint(peers, slug)[s] = peers[s]
  <1> DEFINE peer == [peers[slug][1] EXCEPT !.endpoint = TRUE]
  <1>1. peers[slug][1] \in Peers
    BY DEF PeerFiles
  <1>2. peer \in Peers /\ peer.endpoint = TRUE /\ peer.trust = peers[slug][1].trust
    BY <1>1 DEF Peers
  <1>3. WithEndpoint(peers, slug) = [peers EXCEPT ![slug] = <<peer>>]
    BY DEF WithEndpoint
  <1>4. <<peer>> \in Seq(Peers) /\ <<peer>> # <<>> /\ <<peer>>[1] = peer
    BY <1>2, Singleton
  <1> HIDE DEF peer
  <1>5. WithEndpoint(peers, slug) \in PeerFiles
    BY <1>3, <1>4 DEF PeerFiles
  <1>6. WithEndpoint(peers, slug)[slug] = <<peer>>
    BY <1>3 DEF PeerFiles
  <1>7. \A s \in Nodes : s # slug => WithEndpoint(peers, slug)[s] = peers[s]
    BY <1>3 DEF PeerFiles
  <1> QED
    BY <1>2, <1>4, <1>5, <1>6, <1>7

\* Accepted facts raise the trust by 0.05 at most, and what lowers it stops at
\* "very low".
LEMMA AdjustedBounds ==
  ASSUME NEW t \in VeryLow..Full, NEW a \in Nat, NEW r \in Nat
  PROVE  /\ Adjusted(t, a, r) \in VeryLow..Full
         /\ a > 0 => Adjusted(t, a, r) <= t + 50
         /\ a = 0 => Adjusted(t, a, r) <= t
  <1>1. CASE a > 0
    <2>1. (50 * a) \div (a + r) <= 50 /\ (50 * a) \div (a + r) \in Nat
      BY <1>1
    <2> QED
      BY <1>1, <2>1 DEF Adjusted, Least, VeryLow, Full
  <1>2. CASE a = 0
    BY <1>2 DEF Adjusted, Greatest, VeryLow, Full
  <1> QED
    BY <1>1, <1>2

\* So does the alignment of personas.
LEMMA AlignedBounds ==
  ASSUME NEW peer \in Peers
  PROVE  Aligned(peer) \in VeryLow..Full
  <1>1. peer.trust \in VeryLow..Full
    BY DEF Peers
  <1> QED
    BY <1>1 DEF Aligned, Least, Greatest, VeryLow, Full

\* A gateway answers, and a bundle lists, one claim for each key.
LEMMA ListedShape ==
  ASSUME NEW store \in [Keys -> Seq(Stored)]
  PROVE  /\ Listed(store) \in Seq(Claims)
         /\ \A i, j \in DOMAIN Listed(store) :
              Listed(store)[i].key = Listed(store)[j].key => i = j
  <1> DEFINE keys == {k \in Keys : store[k] # <<>>}
             N == Cardinality(keys)
             order == SetToSeq(keys)
             claim(k) == [key |-> k, value |-> store[k][1].value, source |-> store[k][1].source]
  <1>1. IsFiniteSet(keys)
    <2>1. keys \subseteq Keys
      OBVIOUS
    <2> QED
      BY <2>1, FS_Subset, MergeAssumption
  <1>2. PICK f \in [1..N -> keys] : IsInjective(f)
    BY <1>1, FS_CardinalityType DEF ExistsBijection, Bijection, Injection
  <1>3. order \in [1..N -> keys] /\ IsInjective(order)
    BY <1>2 DEF SetToSeq
  <1>4. N \in Nat
    BY <1>1, FS_CardinalityType
  <1>5. \A k \in keys : claim(k) \in Claims /\ claim(k).key = k
    <2> SUFFICES ASSUME NEW k \in keys PROVE claim(k) \in Claims /\ claim(k).key = k
      OBVIOUS
    <2>1. k \in Keys /\ store[k] \in Seq(Stored) /\ store[k] # <<>>
      OBVIOUS
    <2>2. store[k][1] \in Stored
      BY <2>1, TheOne
    <2> QED
      BY <2>1, <2>2 DEF Stored, Claims
  <1>6. Listed(store) = [i \in 1..N |-> claim(order[i])]
    BY DEF Listed
  <1> HIDE DEF keys, N, order, claim
  <1>7. Listed(store) \in [1..N -> Claims]
    BY <1>3, <1>5, <1>6
  <1>8. Listed(store) \in Seq(Claims) /\ DOMAIN Listed(store) = 1..N
    BY <1>4, <1>7, FunctionIsSeq
  <1>9. ASSUME NEW i \in 1..N, NEW j \in 1..N, Listed(store)[i].key = Listed(store)[j].key
        PROVE  i = j
    <2>1. order[i] = order[j]
      BY <1>3, <1>5, <1>6, <1>9
    <2> QED
      BY <1>3, <2>1 DEF IsInjective
  <1> QED
    BY <1>8, <1>9

-----------------------------------------------------------------------------
(* Every step keeps the shapes *)

\* A process that changes changes nobody else.
LEMMA SetShape ==
  ASSUME Typed, NEW p \in Procs, NEW r \in Processes, Placed(r), Set(p, r)
  PROVE  /\ proc' \in [Procs -> Processes]
         /\ proc'[p] = r
         /\ \A q \in Procs : q # p => proc'[q] = proc[q]
         /\ \A q \in Procs : Placed(proc'[q])
  <1>1. proc' = [proc EXCEPT ![p] = r] /\ proc \in [Procs -> Processes]
    BY DEF Set, Typed, Shapes
  <1>2. /\ proc' \in [Procs -> Processes] /\ proc'[p] = r
        /\ \A q \in Procs : q # p => proc'[q] = proc[q]
    BY <1>1
  <1>3. \A q \in Procs : Placed(proc'[q])
    BY <1>2 DEF Typed
  <1> QED
    BY <1>2, <1>3

LEMMA LoadedShape == ASSUME Shapes, NEW n \in Nodes PROVE Loaded(n) \in PeerFiles
  BY IdleShape, TheOne DEF Loaded, Shapes

\* What is started: an addition, an import, a sync, a merge.
Calls(call) ==
  /\ call \in Processes
  /\ \A peers \in PeerFiles :
       [call EXCEPT !.mem = peers] \in Processes /\ Placed([call EXCEPT !.mem = peers])
  /\ call.pc \in {"add", "fetch", "synced"}

LEMMA StartShape ==
  ASSUME Typed, NEW p \in Procs, NEW call, Calls(call), Start(p, call)
  PROVE  Typed' /\ proc'[p] = [call EXCEPT !.mem = Loaded(Home[p])]
         /\ \A q \in Procs : q # p => proc'[q] = proc[q]
  <1> DEFINE r == [call EXCEPT !.mem = Loaded(Home[p])]
  <1>1. Home[p] \in Nodes
    BY MergeAssumption
  <1>2. r \in Processes /\ Placed(r) /\ Set(p, r)
    BY <1>1, LoadedShape DEF Typed, Calls, Start, Set
  <1> HIDE DEF r
  <1>3. /\ proc' \in [Procs -> Processes] /\ proc'[p] = r
        /\ \A q \in Procs : q # p => proc'[q] = proc[q]
        /\ \A q \in Procs : Placed(proc'[q])
    BY <1>2, SetShape
  <1>4. /\ disturbed' \in [Nodes -> BOOLEAN]
        /\ UNCHANGED <<file, wiki, articles, bundles, known, reachable, vouched, earned, others>>
    BY <1>1 DEF Start, Typed, Shapes, Busy
  <1> QED
    BY <1>3, <1>4 DEF Typed, Shapes, r

\* Packets of peers added by hand, of a HELLO and of a bundle
LEMMA PacketShape ==
  ASSUME NEW slug \in Nodes
  PROVE  /\ ByHand(slug) \in Packets /\ Plain(slug) \in Packets
         /\ Offers(slug) \subseteq Packets
  <1>1. Identity(slug) \in Identities
    BY DEF Identity, Identities
  <1>2. [Identity(slug) EXCEPT !.stamped = TRUE] \in Identities
    BY <1>1 DEF Identities
  <1>3. <<Identity(slug)>> \in Seq(Identities) /\ <<>> \in Seq(Identities)
    BY <1>1, Singleton, EmptySeqShape
  <1>4. Plain(slug) \in Packets /\ Signed(slug) \in Packets
    BY <1>1, <1>3 DEF Plain, Signed, Packets
  <1>5. Hello(slug) \in Packets
    BY <1>2, <1>3 DEF Hello, Packets
  <1>6. ByHand(slug) \in Packets
    BY <1>3 DEF ByHand, Packets, Identities
  <1> QED
    BY <1>4, <1>5, <1>6 DEF Offers

Call(pc, op, slug, packet, todo, texts, left) ==
  [pc |-> pc, op |-> op, mem |-> NoPeers, slug |-> slug, packet |-> packet, todo |-> todo,
   facts |-> <<>>, articles |-> texts, accepted |-> 0, rejected |-> 0, left |-> left]

LEMMA CallShape ==
  ASSUME NEW pc \in {"add", "fetch", "synced"}, NEW op \in {"add", "import", "sync", "merge"},
         NEW slug \in Seq(Nodes), NEW packet \in Seq(Packets), NEW todo \in Seq(Claims),
         NEW texts \in Seq(Claims), NEW left \in SUBSET Nodes,
         pc # "synced" => slug # <<>>,
         pc = "add" => packet # <<>>,
         pc = "add" => op \in {"add", "import"},
         pc # "add" => op \in {"sync", "merge"} /\ todo = <<>>
  PROVE  Calls(Call(pc, op, slug, packet, todo, texts, left))
  <1> DEFINE call == Call(pc, op, slug, packet, todo, texts, left)
  <1>1. call \in Processes /\ call.pc \in {"add", "fetch", "synced"}
    BY IdleShape DEF Call, Processes, Places
  <1>2. /\ call.pc = pc /\ call.op = op /\ call.slug = slug /\ call.packet = packet
        /\ call.todo = todo
    BY DEF Call
  <1> HIDE DEF call
  <1>3. ASSUME NEW peers \in PeerFiles
        PROVE  [call EXCEPT !.mem = peers] \in Processes /\ Placed([call EXCEPT !.mem = peers])
    <2> DEFINE r == [call EXCEPT !.mem = peers]
    <2>1. r \in Processes
      BY <1>1 DEF Processes
    <2>2. /\ r.pc = pc /\ r.op = op /\ r.slug = slug /\ r.packet = packet /\ r.todo = todo
      BY <1>1, <1>2 DEF Processes
    <2> HIDE DEF r
    <2>3. Placed(r)
      BY <2>2 DEF Placed, Holding
    <2> QED
      BY <2>1, <2>3 DEF r
  <1>4. Calls(call)
    BY <1>1, <1>3 DEF Calls
  <1> QED
    BY <1>4 DEF call

\* Each way to start is such a call.
LEMMA StartTyped ==
  ASSUME Typed, NEW p \in Procs,
         StartAdd(p) \/ StartImport(p) \/ StartSync(p) \/ StartSyncAll(p)
  PROVE  \E call : Calls(call) /\ Start(p, call)
  <1>1. CASE StartAdd(p)
    <2>1. PICK slug \in Nodes : \E packet \in {ByHand(slug)} \union Offers(slug) :
            Start(p, [Idle EXCEPT !.pc = "add", !.op = "add", !.slug = <<slug>>,
                                  !.packet = <<packet>>])
      BY <1>1 DEF StartAdd
    <2>2. PICK packet \in {ByHand(slug)} \union Offers(slug) :
            Start(p, [Idle EXCEPT !.pc = "add", !.op = "add", !.slug = <<slug>>,
                                  !.packet = <<packet>>])
      BY <2>1
    <2>3. packet \in Packets
      BY PacketShape
    <2>4. Calls(Call("add", "add", <<slug>>, <<packet>>, <<>>, <<>>, {}))
      <3>1. /\ <<slug>> \in Seq(Nodes) /\ <<slug>> # <<>> /\ <<>> \in Seq(Claims)
            /\ <<packet>> \in Seq(Packets) /\ <<packet>> # <<>>
        BY <2>3, Singleton, EmptySeqShape
      <3> QED
        BY <3>1, CallShape
    <2>5. ASSUME NEW call, call = [Idle EXCEPT !.pc = "add", !.op = "add", !.slug = <<slug>>, !.packet = <<packet>>]
          PROVE  call = Call("add", "add", <<slug>>, <<packet>>, <<>>, <<>>, {})
      BY <2>5 DEF Idle, Call
    <2> QED
      BY <2>2, <2>4, <2>5
  <1>2. CASE StartImport(p)
    <2>1. PICK bundle \in bundles :
            Start(p, [Idle EXCEPT !.pc = "add", !.op = "import", !.slug = <<bundle.slug>>,
                                  !.packet = <<bundle.packet>>, !.todo = bundle.facts,
                                  !.articles = bundle.articles])
      BY <1>2 DEF StartImport
    <2> DEFINE new == Call("add", "import", <<bundle.slug>>, <<bundle.packet>>, bundle.facts,
                           bundle.articles, {})
    <2>2. /\ bundle.slug \in Nodes /\ bundle.facts \in Seq(Claims) /\ bundle.packet \in Packets
          /\ bundle.articles \in Seq(Claims)
      BY DEF Typed, Shapes, Bundles
    <2>3. Calls(new)
      <3>1. /\ <<bundle.slug>> \in Seq(Nodes) /\ <<bundle.slug>> # <<>>
            /\ <<bundle.packet>> \in Seq(Packets) /\ <<bundle.packet>> # <<>>
        BY <2>2, Singleton
      <3> QED
        BY <2>2, <3>1, CallShape
    <2>4. ASSUME NEW call, call = [Idle EXCEPT !.pc = "add", !.op = "import", !.slug = <<bundle.slug>>,
                       !.packet = <<bundle.packet>>, !.todo = bundle.facts,
                       !.articles = bundle.articles]
          PROVE  call = new
      BY <2>4 DEF Idle, Call
    <2> QED
      BY <2>1, <2>3, <2>4
  <1>3. CASE StartSync(p)
    <2>1. PICK slug \in Nodes, op \in {"sync", "merge"} :
            Start(p, [Idle EXCEPT !.pc = "fetch", !.op = op, !.slug = <<slug>>])
      BY <1>3 DEF StartSync
    <2>2. Calls(Call("fetch", op, <<slug>>, <<>>, <<>>, <<>>, {}))
      <3>1. /\ <<slug>> \in Seq(Nodes) /\ <<slug>> # <<>>
            /\ <<>> \in Seq(Claims) /\ <<>> \in Seq(Packets)
        BY Singleton, EmptySeqShape
      <3> QED
        BY <3>1, CallShape
    <2>3. ASSUME NEW call, call = [Idle EXCEPT !.pc = "fetch", !.op = op, !.slug = <<slug>>]
          PROVE  call = Call("fetch", op, <<slug>>, <<>>, <<>>, <<>>, {})
      BY <2>3 DEF Idle, Call
    <2> QED
      BY <2>1, <2>2, <2>3
  <1>4. CASE StartSyncAll(p)
    <2> DEFINE peers == {slug \in Nodes : Loaded(Home[p])[slug] # <<>>}
    <2>1. Start(p, [Idle EXCEPT !.pc = "synced", !.op = "sync", !.left = peers])
      BY <1>4 DEF StartSyncAll
    <2>2. peers \in SUBSET Nodes
      OBVIOUS
    <2> HIDE DEF peers
    <2>3. Calls(Call("synced", "sync", <<>>, <<>>, <<>>, <<>>, peers))
      <3>1. <<>> \in Seq(Nodes) /\ <<>> \in Seq(Claims) /\ <<>> \in Seq(Packets)
        BY EmptySeqShape
      <3> QED
        BY <2>2, <3>1, CallShape
    <2>4. ASSUME NEW call, call = [Idle EXCEPT !.pc = "synced", !.op = "sync", !.left = peers]
          PROVE  call = Call("synced", "sync", <<>>, <<>>, <<>>, <<>>, peers)
      BY <2>4 DEF Idle, Call
    <2> QED
      BY <2>1, <2>3, <2>4
  <1> QED
    BY <1>1, <1>2, <1>3, <1>4

\* The steps by which a process ends.
LEMMA EndTyped ==
  ASSUME Typed, NEW p \in Procs,
         UnknownPeer(p) \/ SyncEnds(p) \/ ImportEnds(p) \/ Commit(p) \/ Kill(p)
  PROVE  Typed' /\ proc'[p] = Idle /\ \A q \in Procs : q # p => proc'[q] = proc[q]
  <1>1. /\ Set(p, Idle)
        /\ UNCHANGED <<file, wiki, articles, bundles, known, reachable, vouched, earned>>
    BY DEF UnknownPeer, SyncEnds, ImportEnds, Commit, Kill, history
  <1>2. disturbed' \in [Nodes -> BOOLEAN]
    BY MergeAssumption DEF UnknownPeer, SyncEnds, ImportEnds, Commit, Kill, history, Typed, Shapes
  <1>3. others' \in [Procs -> SUBSET Keys]
    BY DEF UnknownPeer, SyncEnds, ImportEnds, Commit, Kill, Typed, Shapes
  <1>4. /\ proc' \in [Procs -> Processes] /\ proc'[p] = Idle
        /\ \A q \in Procs : q # p => proc'[q] = proc[q]
        /\ \A q \in Procs : Placed(proc'[q])
    BY <1>1, IdleShape, SetShape
  <1> QED
    BY <1>1, <1>2, <1>3, <1>4 DEF Typed, Shapes

\* What a process holds of its peer.
LEMMA Here ==
  ASSUME Typed, NEW p \in Procs
  PROVE  /\ Home[p] \in Nodes /\ proc[p] \in Processes /\ Placed(proc[p])
         /\ proc[p].pc \notin {"idle", "synced"} => Slug(p) \in Nodes
         /\ proc[p].pc \in Holding \/ (proc[p].pc = "facts" /\ proc[p].op # "import") =>
              proc[p].mem[Slug(p)] # <<>> /\ proc[p].mem[Slug(p)][1] \in Peers
  <1>1. Home[p] \in Nodes /\ proc[p] \in Processes /\ Placed(proc[p])
    BY MergeAssumption DEF Typed, Shapes
  <1>2. ASSUME proc[p].pc \notin {"idle", "synced"} PROVE Slug(p) \in Nodes
    <2>1. proc[p].slug \in Seq(Nodes) /\ proc[p].slug # <<>>
      BY <1>1, <1>2 DEF Processes, Placed
    <2> QED
      BY <2>1, TheOne DEF Slug
  <1>3. ASSUME proc[p].pc \in Holding \/ (proc[p].pc = "facts" /\ proc[p].op # "import")
        PROVE  proc[p].mem[Slug(p)] # <<>> /\ proc[p].mem[Slug(p)][1] \in Peers
    <2>1. Slug(p) \in Nodes /\ proc[p].mem[Slug(p)] # <<>>
      BY <1>1, <1>2, <1>3 DEF Placed, Slug, Holding
    <2>2. proc[p].mem[Slug(p)] \in Seq(Peers)
      BY <1>1, <2>1 DEF Processes, PeerFiles
    <2> QED
      BY <2>1, <2>2, TheOne
  <1> QED
    BY <1>1, <1>2, <1>3

\* The locals that AddPeer, a sync's bookkeeping and the persona leave.
LEMMA MemShape ==
  ASSUME Typed, NEW p \in Procs, proc[p].pc \notin {"idle", "synced"},
         NEW peers \in PeerFiles, peers[Slug(p)] # <<>>, NEW facts \in Seq(Claims),
         NEW pc \in {"open", "merged"},
         proc[p].op \in {"sync", "merge"} => proc[p].todo = <<>>,
         pc = "merged" => proc[p].op \in {"sync", "merge"},
         NEW r, r = [proc[p] EXCEPT !.mem = peers, !.facts = facts, !.pc = pc]
  PROVE  r \in Processes /\ Placed(r)
  <1>1. proc[p] \in Processes /\ Placed(proc[p])
    BY Here
  <1>2. r \in Processes
    BY <1>1 DEF Processes, Places
  <1>3. /\ r.pc = pc /\ r.op = proc[p].op /\ r.slug = proc[p].slug /\ r.todo = proc[p].todo
        /\ r.mem = peers
    BY <1>1 DEF Processes
  <1> QED
    BY <1>1, <1>2, <1>3 DEF Placed, Holding, Slug

LEMMA NewPeerShape ==
  ASSUME NEW packet \in Packets
  PROVE  NewPeer(packet) \in Peers /\ NewPeer(packet).trust = (IF packet.signature # <<>> THEN Medium ELSE Low)
  BY DEF NewPeer, Packets, Identities, Peers, Medium, Low, VeryLow, Full

LEMMA AddTyped ==
  ASSUME Typed, NEW p \in Procs, AddPeer(p)
  PROVE  /\ Typed'
         /\ \A q \in Procs : q # p => proc'[q] = proc[q]
         /\ proc'[p].pc = "open" /\ proc'[p].op = proc[p].op /\ proc'[p].slug = proc[p].slug
         /\ \A s \in Nodes : s # Slug(p) => proc'[p].mem[s] = proc[p].mem[s]
         /\ proc'[p].mem[Slug(p)] # <<>>
         /\ \A n \in Nodes : vouched[n] \subseteq vouched'[n]
         /\ \/ proc'[p].mem[Slug(p)][1].trust = Low
            \/ proc'[p].mem[Slug(p)][1].trust = Medium /\ Slug(p) \in vouched'[Home[p]]
  <1> DEFINE packet == proc[p].packet[1]
             peers == [proc[p].mem EXCEPT ![Slug(p)] = <<NewPeer(packet)>>]
             r == [proc[p] EXCEPT !.mem[Slug(p)] = <<NewPeer(packet)>>, !.pc = "open"]
  <1>1. proc[p].pc = "add" /\ Home[p] \in Nodes /\ Slug(p) \in Nodes /\ proc[p] \in Processes /\ Placed(proc[p])
    BY Here DEF AddPeer
  <1>2. packet \in Packets
    <2>1. proc[p].packet \in Seq(Packets) /\ proc[p].packet # <<>>
      BY <1>1 DEF Processes, Placed
    <2> QED
      BY <2>1, TheOne
  <1>3. NewPeer(packet) \in Peers
        /\ NewPeer(packet).trust = (IF packet.signature # <<>> THEN Medium ELSE Low)
    BY <1>2, NewPeerShape
  <1>4. /\ <<NewPeer(packet)>> \in Seq(Peers) /\ <<NewPeer(packet)>> # <<>>
        /\ <<NewPeer(packet)>>[1] = NewPeer(packet)
    BY <1>3, Singleton
  <1>5. proc[p].mem \in PeerFiles
    BY <1>1 DEF Processes
  <1>6. /\ peers \in PeerFiles /\ peers[Slug(p)] = <<NewPeer(packet)>>
        /\ \A s \in Nodes : s # Slug(p) => peers[s] = proc[p].mem[s]
    BY <1>1, <1>4, <1>5 DEF PeerFiles
  <1>7. /\ Set(p, r)
        /\ UNCHANGED <<file, wiki, articles, bundles, known, reachable, earned, disturbed, others>>
        /\ vouched' = (IF packet.signature # <<>>
                       THEN [vouched EXCEPT ![Home[p]] = @ \union {Slug(p)}] ELSE vouched)
    BY DEF AddPeer
  <1>8. r = [proc[p] EXCEPT !.mem = peers, !.facts = proc[p].facts, !.pc = "open"]
    BY <1>1 DEF Processes
  <1>9. r.pc = "open" /\ r.op = proc[p].op /\ r.slug = proc[p].slug /\ r.mem = peers
    BY <1>1 DEF Processes
  <1> HIDE DEF r, peers
  <1>10. r \in Processes /\ Placed(r)
    <2>1. proc[p].facts \in Seq(Claims)
      BY <1>1 DEF Processes
    <2>2. peers[Slug(p)] # <<>>
      BY <1>4, <1>6
    <2>3. proc[p].op \in {"sync", "merge"} => proc[p].todo = <<>>
      BY <1>1 DEF Placed
    <2> QED
      BY <1>1, <1>6, <1>8, <2>1, <2>2, <2>3, MemShape
  <1>11. /\ proc' \in [Procs -> Processes] /\ proc'[p] = r
         /\ \A q \in Procs : q # p => proc'[q] = proc[q]
         /\ \A q \in Procs : Placed(proc'[q])
    BY <1>7, <1>10, SetShape
  <1>12. /\ vouched' \in [Nodes -> SUBSET Nodes]
         /\ \A n \in Nodes : vouched[n] \subseteq vouched'[n]
         /\ packet.signature # <<>> => Slug(p) \in vouched'[Home[p]]
    BY <1>1, <1>7 DEF Typed, Shapes
  <1>13. Typed'
    BY <1>7, <1>11, <1>12 DEF Typed, Shapes
  <1>14. proc'[p].mem[Slug(p)][1] = NewPeer(packet)
    BY <1>4, <1>6, <1>9, <1>11
  <1> QED
    BY <1>3, <1>4, <1>6, <1>9, <1>11, <1>12, <1>13, <1>14

\* A peer that is rejected: an import goes on.
LEMMA RejectTyped ==
  ASSUME Typed, NEW p \in Procs, RejectPeer(p)
  PROVE  /\ Typed'
         /\ \A q \in Procs : q # p => proc'[q] = proc[q]
         /\ \/ proc'[p] = Idle
            \/ /\ proc'[p].pc = "facts" /\ proc'[p].op = "import" /\ proc[p].op = "import"
               /\ proc'[p].mem = proc[p].mem /\ proc'[p].slug = proc[p].slug
  <1> DEFINE r == [proc[p] EXCEPT !.pc = "facts"]
             next == IF proc[p].op = "import" THEN r ELSE Idle
  <1>1. proc[p].pc = "add" /\ proc[p] \in Processes /\ Placed(proc[p])
    BY Here DEF RejectPeer
  <1>2. Set(p, next) /\ UNCHANGED <<file, wiki, articles, bundles, history, others>>
    BY DEF RejectPeer
  <1>3. r \in Processes
    BY <1>1 DEF Processes, Places
  <1>4. r.pc = "facts" /\ r.op = proc[p].op /\ r.mem = proc[p].mem /\ r.slug = proc[p].slug
    BY <1>1 DEF Processes
  <1> HIDE DEF r
  <1>5. proc[p].op = "import" => Placed(r)
    BY <1>1, <1>4 DEF Placed, Holding
  <1>6. next \in Processes /\ Placed(next)
    BY <1>3, <1>5, IdleShape
  <1> HIDE DEF next
  <1>7. /\ proc' \in [Procs -> Processes] /\ proc'[p] = next
        /\ \A q \in Procs : q # p => proc'[q] = proc[q]
        /\ \A q \in Procs : Placed(proc'[q])
    BY <1>2, <1>6, SetShape
  <1>8. Typed'
    BY <1>2, <1>7 DEF Typed, Shapes, history
  <1> QED
    BY <1>4, <1>7, <1>8 DEF next

\* An article that is put into a wiki, and one of a bundle that is merged
LEMMA UpsertsShape ==
  ASSUME Typed, NEW n \in Nodes, NEW key \in Keys, NEW value \in Values,
         NEW source \in Sources \union {"peer", "bundle"}
  PROVE  Upserts(n, key, value, source) \subseteq [Nodes -> [Keys -> Seq(Stored)]]
  <1> DEFINE cell == <<[value |-> value, source |-> source]>>
             new == [articles EXCEPT ![n][key] = cell]
  <1>1. [value |-> value, source |-> source] \in Stored
    BY DEF Stored
  <1>2. cell \in Seq(Stored)
    BY <1>1, Singleton
  <1>3. articles \in [Nodes -> [Keys -> Seq(Stored)]]
    BY DEF Typed, Shapes
  <1>4. Upserts(n, key, value, source) \subseteq {articles, new}
    BY DEF Upserts
  <1> HIDE DEF cell
  <1>5. new \in [Nodes -> [Keys -> Seq(Stored)]]
    BY <1>2, <1>3
  <1> QED
    BY <1>3, <1>4, <1>5

LEMMA ArticleTyped ==
  ASSUME Typed, NEW p \in Procs, MergeArticle(p)
  PROVE  /\ Typed'
         /\ \A q \in Procs : q # p => proc'[q] = proc[q]
         /\ proc'[p].pc = "articles" /\ proc'[p].mem = proc[p].mem
  <1> DEFINE r == [proc[p] EXCEPT !.articles = Tail(@)]
             claim == Head(proc[p].articles)
  <1>1. /\ proc[p].pc = "articles" /\ proc[p].articles # <<>> /\ proc[p] \in Processes
        /\ Placed(proc[p]) /\ Home[p] \in Nodes
    BY Here DEF MergeArticle
  <1>2. /\ proc[p].articles \in Seq(Claims) /\ Tail(proc[p].articles) \in Seq(Claims)
        /\ claim \in Claims
    BY <1>1 DEF Processes
  <1>3. r \in Processes
    BY <1>1, <1>2 DEF Processes
  <1>4. /\ r.pc = "articles" /\ r.op = proc[p].op /\ r.slug = proc[p].slug
        /\ r.todo = proc[p].todo /\ r.mem = proc[p].mem
    BY <1>1 DEF Processes
  <1>5. Set(p, r) /\ UNCHANGED <<file, wiki, bundles, history, others>>
    BY DEF MergeArticle
  <1> HIDE DEF r
  <1>6. Placed(r)
    BY <1>1, <1>4 DEF Placed, Holding
  <1>7. /\ proc' \in [Procs -> Processes] /\ proc'[p] = r
        /\ \A q \in Procs : q # p => proc'[q] = proc[q]
        /\ \A q \in Procs : Placed(proc'[q])
    BY <1>3, <1>5, <1>6, SetShape
  <1>8. articles' \in [Nodes -> [Keys -> Seq(Stored)]]
    <2>1. claim.key \in Keys /\ claim.value \in Values
      BY <1>2 DEF Claims
    <2>2. articles' \in Upserts(Home[p], claim.key, claim.value, "bundle")
      BY DEF MergeArticle
    <2> HIDE DEF claim
    <2> QED
      BY <1>1, <2>1, <2>2, UpsertsShape
  <1>9. Typed'
    BY <1>5, <1>7, <1>8 DEF Typed, Shapes, history
  <1> QED
    BY <1>4, <1>7, <1>9


\* The file is truncated, then the peers in memory are written.
LEMMA OpenTyped ==
  ASSUME Typed, NEW p \in Procs, OpenFile(p)
  PROVE  /\ Typed'
         /\ \A q \in Procs : q # p => proc'[q] = proc[q]
         /\ proc'[p] = [proc[p] EXCEPT !.pc = "dump"]
  <1> DEFINE r == [proc[p] EXCEPT !.pc = "dump"]
  <1>1. proc[p].pc = "open" /\ proc[p] \in Processes /\ Placed(proc[p]) /\ Home[p] \in Nodes
    BY Here DEF OpenFile
  <1>2. r \in Processes
    BY <1>1 DEF Processes, Places
  <1>3. /\ r.pc = "dump" /\ r.op = proc[p].op /\ r.slug = proc[p].slug /\ r.todo = proc[p].todo
        /\ r.mem = proc[p].mem
    BY <1>1 DEF Processes
  <1>4. Set(p, r)
    BY DEF OpenFile
  <1> HIDE DEF r
  <1>5. Placed(r)
    BY <1>1, <1>3 DEF Placed, Holding
  <1>6. /\ proc' \in [Procs -> Processes] /\ proc'[p] = r
        /\ \A q \in Procs : q # p => proc'[q] = proc[q]
        /\ \A q \in Procs : Placed(proc'[q])
    BY <1>2, <1>4, <1>5, SetShape
  <1>7. file' \in [Nodes -> Seq(PeerFiles)]
    <2>1. <<>> \in Seq(PeerFiles)
      OBVIOUS
    <2> QED
      BY <2>1 DEF OpenFile, Typed, Shapes
  <1> QED
    BY <1>6, <1>7 DEF OpenFile, Typed, Shapes, history, r

LEMMA DumpTyped ==
  ASSUME Typed, NEW p \in Procs, DumpPeers(p)
  PROVE  /\ Typed'
         /\ \A q \in Procs : q # p => proc'[q] = proc[q]
         /\ \/ proc'[p] = Idle
            \/ /\ proc'[p].mem = proc[p].mem /\ proc'[p].pc \in {"facts", "synced", "persona"}
               /\ proc'[p].slug = proc[p].slug
               /\ proc'[p].pc = "facts" => proc'[p].op = "import"
  <1> DEFINE r(pc) == [proc[p] EXCEPT !.pc = pc]
  <1>1. proc[p].pc = "dump" /\ proc[p] \in Processes /\ Placed(proc[p]) /\ Home[p] \in Nodes
        /\ Slug(p) \in Nodes
    BY Here DEF DumpPeers
  <1>2. Set(p, AfterSave(p))
    BY DEF DumpPeers
  <1>3. PICK pc \in {"facts", "synced", "persona"} :
          \/ AfterSave(p) = Idle
          \/ /\ AfterSave(p) = r(pc)
             /\ pc = "facts" => proc[p].op = "import"
             /\ pc # "facts" => proc[p].op \in {"sync", "merge"}
    <2>1. proc[p].op \in {"add", "import", "sync", "merge"}
      BY <1>1 DEF Placed, Processes
    <2>2. CASE proc[p].op = "add"
      BY <2>2 DEF AfterSave
    <2>3. CASE proc[p].op = "import"
      BY <2>3 DEF AfterSave
    <2>4. CASE proc[p].op = "sync"
      BY <2>4 DEF AfterSave
    <2>5. CASE proc[p].op = "merge"
      BY <2>5 DEF AfterSave
    <2> QED
      BY <2>1, <2>2, <2>3, <2>4, <2>5
  <1>4. r(pc) \in Processes
    BY <1>1 DEF Processes, Places
  <1>5. /\ r(pc).pc = pc /\ r(pc).op = proc[p].op /\ r(pc).slug = proc[p].slug
        /\ r(pc).todo = proc[p].todo /\ r(pc).mem = proc[p].mem
    BY <1>1 DEF Processes
  <1> HIDE DEF r
  <1>6. AfterSave(p) \in Processes /\ Placed(AfterSave(p))
    <2>1. CASE AfterSave(p) = Idle
      BY <2>1, IdleShape
    <2>2. CASE AfterSave(p) = r(pc) /\ (pc = "facts" => proc[p].op = "import")
               /\ (pc # "facts" => proc[p].op \in {"sync", "merge"})
      <3>1. Placed(r(pc))
        BY <1>1, <1>5, <2>2 DEF Placed, Holding
      <3> QED
        BY <1>4, <2>2, <3>1
    <2> QED
      BY <1>3, <2>1, <2>2
  <1>7. /\ proc' \in [Procs -> Processes] /\ proc'[p] = AfterSave(p)
        /\ \A q \in Procs : q # p => proc'[q] = proc[q]
        /\ \A q \in Procs : Placed(proc'[q])
    BY <1>2, <1>6, SetShape
  <1>8. file' \in [Nodes -> Seq(PeerFiles)]
    <2>1. <<proc[p].mem>> \in Seq(PeerFiles)
      BY <1>1, Singleton DEF Processes
    <2> QED
      BY <2>1 DEF DumpPeers, Typed, Shapes
  <1>9. known' \in [Nodes -> SUBSET Nodes] /\ reachable' \in [Nodes -> SUBSET Nodes]
    BY <1>1 DEF DumpPeers, Typed, Shapes
  <1>10. Typed'
    BY <1>7, <1>8, <1>9 DEF DumpPeers, Typed, Shapes
  <1> QED
    BY <1>3, <1>5, <1>7, <1>10

\* The peer's answer, or none.
LEMMA FetchTyped ==
  ASSUME Typed, NEW p \in Procs, Fetch(p) \/ FetchNothing(p)
  PROVE  /\ Typed'
         /\ \A q \in Procs : q # p => proc'[q] = proc[q]
         /\ proc'[p].pc = "facts" /\ proc'[p].op = proc[p].op /\ proc'[p].mem = proc[p].mem
         /\ proc'[p].slug = proc[p].slug /\ proc'[p].todo = proc'[p].facts
         /\ \A i, j \in DOMAIN proc'[p].facts :
              proc'[p].facts[i].key = proc'[p].facts[j].key => i = j
  <1> DEFINE r(todo) == [proc[p] EXCEPT !.todo = todo, !.facts = todo, !.accepted = 0,
                                        !.rejected = 0, !.pc = "facts"]
  <1>1. /\ proc[p].pc = "fetch" /\ proc[p] \in Processes /\ Placed(proc[p]) /\ Slug(p) \in Nodes
        /\ proc[p].mem[Slug(p)] # <<>>
    BY Here DEF Fetch, FetchNothing
  <1>2. PICK todo \in Seq(Claims) :
          /\ Set(p, r(todo))
          /\ \A i, j \in DOMAIN todo : todo[i].key = todo[j].key => i = j
    <2>1. CASE Fetch(p)
      <3>1. /\ Listed(wiki[Slug(p)]) \in Seq(Claims)
            /\ \A i, j \in DOMAIN Listed(wiki[Slug(p)]) :
                 Listed(wiki[Slug(p)])[i].key = Listed(wiki[Slug(p)])[j].key => i = j
        BY <1>1, ListedShape DEF Typed, Shapes
      <3>2. Set(p, r(Listed(wiki[Slug(p)])))
        BY <2>1 DEF Fetch
      <3> HIDE DEF r
      <3> QED
        BY <3>1, <3>2
    <2>2. CASE FetchNothing(p)
      <3>1. proc[p].todo = <<>>
        BY <1>1 DEF Placed
      <3>2. [proc[p] EXCEPT !.facts = <<>>, !.accepted = 0, !.rejected = 0, !.pc = "facts"]
              = r(<<>>)
        BY <1>1, <3>1 DEF Processes
      <3>3. Set(p, r(<<>>))
        BY <2>2, <3>2 DEF FetchNothing
      <3>4. <<>> \in Seq(Claims) /\ DOMAIN <<>> = {}
        OBVIOUS
      <3> HIDE DEF r
      <3> QED
        BY <3>3, <3>4
    <2> QED
      BY <2>1, <2>2
  <1>3. r(todo) \in Processes
    BY <1>1 DEF Processes, Places
  <1>4. /\ r(todo).pc = "facts" /\ r(todo).op = proc[p].op /\ r(todo).slug = proc[p].slug
        /\ r(todo).todo = todo /\ r(todo).facts = todo /\ r(todo).mem = proc[p].mem
    BY <1>1 DEF Processes
  <1> HIDE DEF r
  <1>5. Placed(r(todo))
    BY <1>1, <1>4 DEF Placed, Holding, Slug
  <1>6. /\ proc' \in [Procs -> Processes] /\ proc'[p] = r(todo)
        /\ \A q \in Procs : q # p => proc'[q] = proc[q]
        /\ \A q \in Procs : Placed(proc'[q])
    BY <1>2, <1>3, <1>5, SetShape
  <1>7. others' \in [Procs -> SUBSET Keys]
    BY DEF Fetch, FetchNothing, Typed, Shapes
  <1>8. Typed'
    BY <1>6, <1>7 DEF Fetch, FetchNothing, Typed, Shapes, history
  <1> QED
    BY <1>2, <1>4, <1>6, <1>8

\* One claim is taken or rejected; the next one is looked at.
LEMMA ClaimTyped ==
  ASSUME Typed, NEW p \in Procs, TakeFact(p) \/ RejectFact(p)
  PROVE  /\ Typed'
         /\ \A q \in Procs : q # p => proc'[q] = proc[q]
         /\ proc'[p].pc = "facts" /\ proc'[p].todo = Tail(proc[p].todo)
         /\ proc'[p].op = proc[p].op /\ proc'[p].mem = proc[p].mem /\ proc'[p].slug = proc[p].slug
         /\ proc'[p].facts = proc[p].facts
         /\ TakeFact(p) => proc'[p].rejected = proc[p].rejected
         /\ RejectFact(p) => proc'[p].rejected > 0
  <1> DEFINE r == [proc[p] EXCEPT !.todo = Tail(@), !.accepted = @ + 1]
             s == [proc[p] EXCEPT !.todo = Tail(@), !.rejected = @ + 1]
  <1>1. /\ proc[p].pc = "facts" /\ proc[p].todo # <<>> /\ proc[p] \in Processes /\ Placed(proc[p])
        /\ Home[p] \in Nodes
    BY Here DEF TakeFact, RejectFact
  <1>2. /\ proc[p].todo \in Seq(Claims) /\ Tail(proc[p].todo) \in Seq(Claims)
        /\ Head(proc[p].todo) \in Claims
    BY <1>1 DEF Processes
  <1>3. PICK x \in {r, s} : Set(p, x) /\ (TakeFact(p) => x = r) /\ (RejectFact(p) => x = s)
    <2>1. CASE TakeFact(p) /\ RejectFact(p)
      <3>1. r = s
        <4>1. proc' = [proc EXCEPT ![p] = r] /\ proc' = [proc EXCEPT ![p] = s]
          BY <2>1 DEF TakeFact, RejectFact, Set
        <4> HIDE DEF r, s
        <4> QED
          BY <4>1 DEF Typed, Shapes
      <3>2. Set(p, r)
        BY <2>1 DEF TakeFact
      <3> HIDE DEF r, s
      <3> QED
        BY <3>1, <3>2
    <2>2. CASE TakeFact(p) /\ ~RejectFact(p)
      BY <2>2 DEF TakeFact
    <2>3. CASE ~TakeFact(p) /\ RejectFact(p)
      BY <2>3 DEF RejectFact
    <2> QED
      BY <2>1, <2>2, <2>3
  <1>4. /\ x.pc = "facts" /\ x.op = proc[p].op /\ x.slug = proc[p].slug /\ x.mem = proc[p].mem
        /\ x.todo = Tail(proc[p].todo) /\ x.facts = proc[p].facts
        /\ x = r => x.rejected = proc[p].rejected
        /\ x = s => x.rejected = proc[p].rejected + 1
    BY <1>1 DEF Processes
  <1>5. x \in Processes
    <2>1. proc[p].accepted + 1 \in Nat /\ proc[p].rejected + 1 \in Nat
      BY <1>1 DEF Processes
    <2>2. CASE x = r
      BY <1>1, <1>2, <2>1, <2>2 DEF Processes
    <2>3. CASE x = s
      BY <1>1, <1>2, <2>1, <2>3 DEF Processes
    <2> HIDE DEF r, s
    <2> QED
      BY <2>2, <2>3
  <1>6. proc[p].rejected \in Nat
    BY <1>1 DEF Processes
  <1> HIDE DEF r, s
  <1>7. Placed(x)
    BY <1>1, <1>4 DEF Placed, Holding, Slug
  <1>8. /\ proc' \in [Procs -> Processes] /\ proc'[p] = x
        /\ \A q \in Procs : q # p => proc'[q] = proc[q]
        /\ \A q \in Procs : Placed(proc'[q])
    BY <1>3, <1>5, <1>7, SetShape
  <1>9. wiki' \in [Nodes -> [Keys -> Seq(Stored)]] /\ others' \in [Procs -> SUBSET Keys]
    <2>1. CASE TakeFact(p)
      <3>1. Label(p) \in {"peer", "bundle"}
        BY DEF Label
      <3>2. [value |-> Head(proc[p].todo).value, source |-> Label(p)] \in Stored
        BY <1>2, <3>1 DEF Stored, Claims
      <3>3. <<[value |-> Head(proc[p].todo).value, source |-> Label(p)]>> \in Seq(Stored)
        BY <3>2, Singleton
      <3>4. wiki' \in [Nodes -> [Keys -> Seq(Stored)]]
        BY <1>1, <2>1, <3>3 DEF TakeFact, Typed, Shapes
      <3>5. others' \in [Procs -> SUBSET Keys]
        BY <1>2, <2>1 DEF TakeFact, Written, Typed, Shapes, Claims
      <3> QED
        BY <3>4, <3>5
    <2>2. CASE RejectFact(p)
      BY <2>2 DEF RejectFact, Typed, Shapes
    <2> QED
      BY <2>1, <2>2
  <1>10. UNCHANGED <<file, articles, bundles, known, reachable, vouched, earned, disturbed>>
    BY DEF TakeFact, RejectFact, history
  <1>11. Typed'
    BY <1>8, <1>9, <1>10 DEF Typed, Shapes
  <1>12. RejectFact(p) => x.rejected > 0
    BY <1>3, <1>4, <1>6
  <1> QED
    BY <1>3, <1>4, <1>8, <1>11, <1>12

\* One sync more with accepted facts.
LEMMA EarnsOne ==
  ASSUME NEW e \in [Nodes -> [Nodes -> Nat]], NEW n \in Nodes, NEW m \in Nodes
  PROVE  /\ [e EXCEPT ![n][m] = @ + 1] \in [Nodes -> [Nodes -> Nat]]
         /\ [e EXCEPT ![n][m] = @ + 1][n][m] = e[n][m] + 1
         /\ \A i, j \in Nodes : [e EXCEPT ![n][m] = @ + 1][i][j] >= e[i][j]
  OBVIOUS

\* The end of a sync or of an import, and the alignment of personas: trust is
\* what changes.
LEMMA DoneTyped ==
  ASSUME Typed, NEW p \in Procs, FactsDone(p)
  PROVE  /\ Typed'
         /\ \A q \in Procs : q # p => proc'[q] = proc[q]
         /\ \/ /\ proc'[p].pc = "articles" /\ proc[p].op = "import" /\ UNCHANGED earned
               /\ proc'[p].mem = proc[p].mem
            \/ /\ proc'[p].pc = "open" /\ proc'[p].slug = proc[p].slug
               /\ proc'[p].op = proc[p].op /\ proc[p].op # "import"
               /\ proc'[p].mem = WithTrust(proc[p].mem, Slug(p),
                    Adjusted(proc[p].mem[Slug(p)][1].trust, proc[p].accepted, proc[p].rejected))
               /\ earned' = (IF proc[p].accepted > 0
                             THEN [earned EXCEPT ![Home[p]][Slug(p)] = @ + 1] ELSE earned)
  <1> DEFINE new == Adjusted(proc[p].mem[Slug(p)][1].trust, proc[p].accepted, proc[p].rejected)
             peers == WithTrust(proc[p].mem, Slug(p), new)
             s == [proc[p] EXCEPT !.pc = "articles"]
             r == [proc[p] EXCEPT !.mem = WithTrust(@, Slug(p), new), !.facts = <<>>, !.pc = "open"]
  <1>1. /\ proc[p].pc = "facts" /\ proc[p].todo = <<>> /\ proc[p] \in Processes
        /\ Placed(proc[p]) /\ Home[p] \in Nodes /\ Slug(p) \in Nodes
    BY Here DEF FactsDone
  <1>2. others' \in [Procs -> SUBSET Keys] /\ UNCHANGED <<file, wiki, articles, bundles, known, reachable, vouched, disturbed>>
    BY DEF FactsDone, Typed, Shapes
  <1>3. CASE proc[p].op = "import"
    <2>1. Set(p, s) /\ UNCHANGED earned
      BY <1>3 DEF FactsDone
    <2>2. s \in Processes
      BY <1>1 DEF Processes, Places
    <2>3. /\ s.pc = "articles" /\ s.op = "import" /\ s.slug = proc[p].slug
          /\ s.mem = proc[p].mem
      BY <1>1, <1>3 DEF Processes
    <2> HIDE DEF s
    <2>4. Placed(s)
      BY <1>1, <2>3 DEF Placed, Holding
    <2>5. /\ proc' \in [Procs -> Processes] /\ proc'[p] = s
          /\ \A q \in Procs : q # p => proc'[q] = proc[q]
          /\ \A q \in Procs : Placed(proc'[q])
      BY <2>1, <2>2, <2>4, SetShape
    <2> QED
      BY <1>2, <1>3, <2>1, <2>3, <2>5 DEF Typed, Shapes
  <1>4. CASE proc[p].op # "import"
    <2>1. proc[p].mem[Slug(p)] # <<>> /\ proc[p].mem[Slug(p)][1] \in Peers
      BY <1>1, <1>4, Here
    <2>2. new \in VeryLow..Full
      <3>1. /\ proc[p].mem[Slug(p)][1].trust \in VeryLow..Full
            /\ proc[p].accepted \in Nat /\ proc[p].rejected \in Nat
        BY <1>1, <2>1 DEF Peers, Processes
      <3> QED
        BY <3>1, AdjustedBounds
    <2>3. peers \in PeerFiles /\ peers[Slug(p)] # <<>>
      <3>1. proc[p].mem \in PeerFiles
        BY <1>1 DEF Processes
      <3> HIDE DEF new
      <3> QED
        BY <1>1, <2>1, <2>2, <3>1, WithTrustShape
    <2>4. r = [proc[p] EXCEPT !.mem = peers, !.facts = <<>>, !.pc = "open"]
      BY <1>1 DEF Processes
    <2>5. /\ r.pc = "open" /\ r.op = proc[p].op /\ r.slug = proc[p].slug /\ r.mem = peers
      BY <1>1 DEF Processes
    <2>6. /\ Set(p, r)
          /\ earned' = (IF proc[p].accepted > 0
                        THEN [earned EXCEPT ![Home[p]][Slug(p)] = @ + 1] ELSE earned)
      BY <1>4 DEF FactsDone
    <2> HIDE DEF r, peers
    <2>7. r \in Processes /\ Placed(r)
      <3>1. <<>> \in Seq(Claims)
        OBVIOUS
      <3> QED
        BY <1>1, <2>3, <2>4, <3>1, MemShape
    <2>8. /\ proc' \in [Procs -> Processes] /\ proc'[p] = r
          /\ \A q \in Procs : q # p => proc'[q] = proc[q]
          /\ \A q \in Procs : Placed(proc'[q])
      BY <2>6, <2>7, SetShape
    <2>9. earned' \in [Nodes -> [Nodes -> Nat]]
      <3>1. earned \in [Nodes -> [Nodes -> Nat]]
        BY DEF Typed, Shapes
      <3> QED
        BY <1>1, <2>6, <3>1, EarnsOne
    <2>10. Typed'
      BY <1>2, <2>8, <2>9 DEF Typed, Shapes
    <2> QED
      BY <1>4, <2>5, <2>6, <2>8, <2>10 DEF peers
  <1> QED
    BY <1>3, <1>4

LEMMA PersonaTyped ==
  ASSUME Typed, NEW p \in Procs, MergePersona(p)
  PROVE  /\ Typed'
         /\ \A q \in Procs : q # p => proc'[q] = proc[q]
         /\ proc'[p].pc = "merged" /\ proc'[p].slug = proc[p].slug /\ proc'[p].op = proc[p].op
         /\ \A s \in Nodes : /\ proc'[p].mem[s] = <<>> <=> proc[p].mem[s] = <<>>
                             /\ proc[p].mem[s] # <<>> =>
                                  proc'[p].mem[s][1].endpoint = proc[p].mem[s][1].endpoint
  <1> DEFINE new == Aligned(proc[p].mem[Slug(p)][1])
             peers == WithTrust(proc[p].mem, Slug(p), new)
             r == [proc[p] EXCEPT !.mem = WithTrust(@, Slug(p), Aligned(@[Slug(p)][1])),
                                  !.pc = "merged"]
  <1>1. /\ proc[p].pc = "persona" /\ proc[p] \in Processes
        /\ Placed(proc[p]) /\ Home[p] \in Nodes /\ Slug(p) \in Nodes
        /\ proc[p].mem[Slug(p)] # <<>> /\ proc[p].mem[Slug(p)][1] \in Peers
    BY Here DEF MergePersona, Holding
  <1>2. new \in VeryLow..Full
    BY <1>1, AlignedBounds
  <1>3. /\ peers \in PeerFiles /\ peers[Slug(p)] # <<>>
        /\ peers[Slug(p)][1].endpoint = proc[p].mem[Slug(p)][1].endpoint
        /\ \A s \in Nodes : s # Slug(p) => peers[s] = proc[p].mem[s]
    <2>1. proc[p].mem \in PeerFiles
      BY <1>1 DEF Processes
    <2> HIDE DEF new
    <2> QED
      BY <1>1, <1>2, <2>1, WithTrustShape
  <1>4. r = [proc[p] EXCEPT !.mem = peers, !.facts = proc[p].facts, !.pc = "merged"]
    BY <1>1 DEF Processes
  <1>5. r.pc = "merged" /\ r.op = proc[p].op /\ r.slug = proc[p].slug /\ r.mem = peers
    BY <1>1 DEF Processes
  <1>6. Set(p, r) /\ UNCHANGED <<file, wiki, articles, bundles, history, others>>
    BY DEF MergePersona
  <1> HIDE DEF r, peers
  <1>7. r \in Processes /\ Placed(r)
    <2>1. proc[p].facts \in Seq(Claims) /\ proc[p].op \in {"sync", "merge"} /\ proc[p].todo = <<>>
      BY <1>1 DEF Processes, Placed
    <2> QED
      BY <1>1, <1>3, <1>4, <2>1, MemShape
  <1>8. /\ proc' \in [Procs -> Processes] /\ proc'[p] = r
        /\ \A q \in Procs : q # p => proc'[q] = proc[q]
        /\ \A q \in Procs : Placed(proc'[q])
    BY <1>6, <1>7, SetShape
  <1>9. Typed'
    BY <1>6, <1>8 DEF Typed, Shapes, history
  <1> QED
    BY <1>1, <1>3, <1>5, <1>8, <1>9

LEMMA SyncNextTyped ==
  ASSUME Typed, NEW p \in Procs, SyncNext(p)
  PROVE  /\ Typed'
         /\ \A q \in Procs : q # p => proc'[q] = proc[q]
         /\ proc'[p].pc = "fetch" /\ proc'[p].mem = proc[p].mem
  <1>1. PICK slug \in proc[p].left :
          Set(p, [proc[p] EXCEPT !.slug = <<slug>>, !.left = @ \ {slug}, !.pc = "fetch"])
    BY DEF SyncNext
  <1> DEFINE r == [proc[p] EXCEPT !.slug = <<slug>>, !.left = @ \ {slug}, !.pc = "fetch"]
  <1>2. proc[p].pc = "synced" /\ proc[p] \in Processes /\ Placed(proc[p]) /\ slug \in Nodes
    BY Here DEF SyncNext, Processes
  <1>3. <<slug>> \in Seq(Nodes) /\ <<slug>> # <<>>
    BY <1>2, Singleton
  <1>4. r \in Processes
    <2>1. proc[p].left \ {slug} \in SUBSET Nodes
      BY <1>2 DEF Processes
    <2> QED
      BY <1>2, <1>3, <2>1 DEF Processes, Places
  <1>5. /\ r.pc = "fetch" /\ r.op = proc[p].op /\ r.slug = <<slug>> /\ r.todo = proc[p].todo
        /\ r.mem = proc[p].mem
    BY <1>2 DEF Processes
  <1> HIDE DEF r
  <1>6. Placed(r)
    BY <1>2, <1>3, <1>5 DEF Placed, Holding
  <1>7. /\ proc' \in [Procs -> Processes] /\ proc'[p] = r
        /\ \A q \in Procs : q # p => proc'[q] = proc[q]
        /\ \A q \in Procs : Placed(proc'[q])
    BY <1>1, <1>4, <1>6, SetShape DEF r
  <1>8. Typed'
    BY <1>7 DEF SyncNext, Typed, Shapes, history
  <1> QED
    BY <1>5, <1>7, <1>8

\* What the owners do.
LEMMA OwnerTyped ==
  ASSUME Typed, NEW n \in Nodes, Put(n) \/ PutArticle(n) \/ SetEndpoint(n) \/ Export(n)
  PROVE  Typed' /\ UNCHANGED <<proc, known, vouched, earned, disturbed>>
  <1>1. CASE Put(n)
    <2>1. PICK key \in Keys, value \in Values, source \in Sources :
            /\ wiki' = [wiki EXCEPT ![n][key] = <<[value |-> value, source |-> source]>>]
            /\ Written({}, n, key)
      BY <1>1 DEF Put
    <2>2. [value |-> value, source |-> source] \in Stored
      BY DEF Stored
    <2>3. <<[value |-> value, source |-> source]>> \in Seq(Stored)
      BY <2>2, Singleton
    <2>4. wiki' \in [Nodes -> [Keys -> Seq(Stored)]]
      BY <2>1, <2>3 DEF Typed, Shapes
    <2>5. others' \in [Procs -> SUBSET Keys]
      BY <2>1 DEF Written, Typed, Shapes
    <2> QED
      BY <1>1, <2>4, <2>5 DEF Put, Typed, Shapes, history
  <1>2. CASE SetEndpoint(n)
    <2>1. PICK slug \in Nodes :
            /\ file[n][1][slug] # <<>>
            /\ file' = [file EXCEPT ![n] = <<WithEndpoint(@[1], slug)>>]
            /\ reachable' = [reachable EXCEPT ![n] = @ \union {slug}]
      BY <1>2 DEF SetEndpoint
    <2>2. file[n][1] \in PeerFiles
      BY <1>2, TheOne DEF SetEndpoint, Typed, Shapes
    <2>3. <<WithEndpoint(file[n][1], slug)>> \in Seq(PeerFiles)
      BY <2>1, <2>2, WithEndpointShape, Singleton
    <2>4. file' \in [Nodes -> Seq(PeerFiles)] /\ reachable' \in [Nodes -> SUBSET Nodes]
      BY <2>1, <2>3 DEF Typed, Shapes
    <2> QED
      BY <1>2, <2>4 DEF SetEndpoint, Typed, Shapes
  <1>3. CASE Export(n)
    <2>1. PICK slug \in Nodes, packet \in Offers(n) :
            \E signature \in {<<packet>>} \union (IF n \in Foreign THEN {<<>>} ELSE {}) :
              bundles' = bundles \union
                {[slug |-> slug, packet |-> packet, signature |-> signature,
                  facts |-> Listed(wiki[n]), articles |-> Listed(articles[n])]}
      BY <1>3 DEF Export
    <2>2. PICK signature \in {<<packet>>, <<>>} :
            bundles' = bundles \union
              {[slug |-> slug, packet |-> packet, signature |-> signature,
                facts |-> Listed(wiki[n]), articles |-> Listed(articles[n])]}
      BY <2>1
    <2> DEFINE bundle == [slug |-> slug, packet |-> packet, signature |-> signature,
                          facts |-> Listed(wiki[n]), articles |-> Listed(articles[n])]
    <2>3. packet \in Packets
      BY PacketShape
    <2>4. signature \in Seq(Packets)
      BY <2>3, Singleton, EmptySeqShape
    <2>5. Listed(wiki[n]) \in Seq(Claims) /\ Listed(articles[n]) \in Seq(Claims)
      BY ListedShape DEF Typed, Shapes
    <2>6. bundle \in Bundles
      BY <2>3, <2>4, <2>5 DEF Bundles
    <2>7. bundles' = bundles \union {bundle}
      BY <2>2
    <2> HIDE DEF bundle
    <2> QED
      BY <1>3, <2>6, <2>7 DEF Export, Typed, Shapes, history
  <1>4. CASE PutArticle(n)
    <2>1. PICK key \in Keys, value \in Values, source \in Sources :
            articles' \in Upserts(n, key, value, source)
      BY <1>4 DEF PutArticle
    <2>2. articles' \in [Nodes -> [Keys -> Seq(Stored)]]
      BY <2>1, UpsertsShape
    <2> QED
      BY <1>4, <2>2 DEF PutArticle, Typed, Shapes, history
  <1> QED
    BY <1>1, <1>2, <1>3, <1>4

LEMMA InitTyped == Init => Typed
  <1> SUFFICES ASSUME Init PROVE Typed
    OBVIOUS
  <1>1. file \in [Nodes -> Seq(PeerFiles)]
    <2>1. <<NoPeers>> \in Seq(PeerFiles)
      BY IdleShape, Singleton
    <2> QED
      BY <2>1 DEF Init
  <1>2. proc \in [Procs -> Processes] /\ \A p \in Procs : Placed(proc[p])
    BY IdleShape DEF Init
  <1>3. /\ wiki \in [Nodes -> [Keys -> Seq(Stored)]]
        /\ articles \in [Nodes -> [Keys -> Seq(Stored)]]
    <2>1. <<>> \in Seq(Stored)
      OBVIOUS
    <2>2. \A f \in [value : Values, source : Sources] : <<f>> \in Seq(Stored)
      <3> SUFFICES ASSUME NEW f \in [value : Values, source : Sources] PROVE <<f>> \in Seq(Stored)
        OBVIOUS
      <3>1. f \in Stored
        BY DEF Stored
      <3> QED
        BY <3>1, Singleton
    <2>3. {<<>>} \union {<<f>> : f \in [value : Values, source : Sources]} \subseteq Seq(Stored)
      BY <2>1, <2>2, Zenon
    <2>4. Before \in [Nodes -> [Keys -> Seq(Stored)]]
      BY <2>3, MergeAssumption
    <2> QED
      BY <2>1, <2>4 DEF Init
  <1> QED
    BY <1>1, <1>2, <1>3 DEF Init, Typed, Shapes

LEMMA StutterTyped == ASSUME Typed, UNCHANGED vars PROVE Typed'
  BY DEF vars, history, Typed, Shapes

(* Every step keeps Typed.                                                 *)
LEMMA NextTyped == ASSUME Typed, [Next]_vars PROVE Typed'
  <1>1. CASE UNCHANGED vars
    BY <1>1, StutterTyped
  <1>2. ASSUME NEW p \in Procs, Step(p) PROVE Typed'
    BY <1>2, StartTyped, StartShape, EndTyped, RejectTyped, ArticleTyped,
       AddTyped, OpenTyped, DumpTyped, FetchTyped,
       ClaimTyped, DoneTyped, SyncNextTyped, PersonaTyped DEF Step
  <1>3. ASSUME NEW n \in Nodes, Put(n) \/ PutArticle(n) \/ SetEndpoint(n) \/ Export(n) PROVE Typed'
    BY <1>3, OwnerTyped
  <1> QED
    BY <1>1, <1>2, <1>3 DEF Next

(* Types, and in particular that no sequence of additions, syncs, merges   *)
(* and edits brings the trust of a peer below "very low" or above 1.       *)
THEOREM TypeCorrect == Spec => []TypeOK
  <1>1. Typed => TypeOK
    <2> SUFFICES ASSUME Typed PROVE TypeOK
      OBVIOUS
    <2>1. \A n \in Nodes : file[n] = <<>> \/ file[n][1] \in PeerFiles
      BY TheOne DEF Typed, Shapes
    <2>2. \A n \in Nodes, k \in Keys :
            /\ wiki[n][k] = <<>> \/ wiki[n][k][1] \in Stored
            /\ articles[n][k] = <<>> \/ articles[n][k][1] \in Stored
      BY TheOne DEF Typed, Shapes
    <2>3. \A p \in Procs : proc[p] \in Processes
      BY DEF Typed, Shapes
    <2> QED
      BY <2>1, <2>2, <2>3 DEF Typed, Shapes, TypeOK, Processes
  <1> QED
    BY <1>1, InitTyped, NextTyped, PTL DEF Spec

-----------------------------------------------------------------------------
(* Trust *)

\* What the trust of each peer of a node may be at most
Ceiling(n) ==
  [s \in Nodes |-> (IF s \in vouched[n] THEN Medium ELSE Low) + 50 * earned[n][s]]

Fits(peers, ceiling) == \A s \in Nodes : peers[s] # <<>> => peers[s][1].trust <= ceiling[s]

\* The bound holds in the file and in every copy of it in memory, but for the
\* copy whose personas are aligned, which is never written.
TrustBounded ==
  /\ \A n \in Nodes : file[n] # <<>> => Fits(file[n][1], Ceiling(n))
  /\ \A p \in Procs : proc[p].pc # "merged" => Fits(proc[p].mem, Ceiling(Home[p]))

\* What was vouched for and earned stays so.
Grows ==
  \A n \in Nodes :
    /\ vouched[n] \subseteq vouched'[n]
    /\ \A s \in Nodes : earned[n][s] <= earned'[n][s]

LEMMA CeilingShape ==
  ASSUME Typed, NEW n \in Nodes
  PROVE  /\ Ceiling(n) \in [Nodes -> Nat]
         /\ \A s \in Nodes :
              /\ Ceiling(n)[s] >= Low + 50 * earned[n][s]
              /\ s \in vouched[n] => Ceiling(n)[s] >= Medium
  BY DEF Typed, Shapes, Ceiling, Medium, Low

\* The same after a step
LEMMA CeilingAfter ==
  ASSUME Typed', NEW n \in Nodes
  PROVE  /\ Ceiling(n)' \in [Nodes -> Nat]
         /\ \A s \in Nodes :
              /\ Ceiling(n)'[s] >= Low + 50 * earned'[n][s]
              /\ s \in vouched'[n] => Ceiling(n)'[s] >= Medium
  BY DEF Typed, Shapes, Ceiling, Medium, Low

LEMMA CeilingGrows ==
  ASSUME Typed, Typed', Grows, NEW n \in Nodes
  PROVE  \A s \in Nodes : Ceiling(n)[s] <= Ceiling(n)'[s]
  <1> SUFFICES ASSUME NEW s \in Nodes PROVE Ceiling(n)[s] <= Ceiling(n)'[s]
    OBVIOUS
  <1> DEFINE e == earned[n][s]
             f == earned'[n][s]
             low == IF s \in vouched[n] THEN Medium ELSE Low
             high == IF s \in vouched'[n] THEN Medium ELSE Low
  <1>1. Ceiling(n)[s] = low + 50 * e /\ Ceiling(n)'[s] = high + 50 * f
    BY DEF Ceiling
  <1>2. e \in Nat /\ f \in Nat /\ e <= f
    BY DEF Typed, Shapes, Grows
  <1>3. low \in Nat /\ high \in Nat /\ low <= high
    BY DEF Grows, Low, Medium
  <1> HIDE DEF e, f, low, high
  <1> QED
    BY <1>1, <1>2, <1>3

\* Peers below a ceiling are below a higher one.
LEMMA FitsHigher ==
  ASSUME NEW peers \in PeerFiles, NEW c \in [Nodes -> Nat], NEW d \in [Nodes -> Nat],
         \A s \in Nodes : c[s] <= d[s], Fits(peers, c)
  PROVE  Fits(peers, d)
  <1> SUFFICES ASSUME NEW s \in Nodes, peers[s] # <<>> PROVE peers[s][1].trust <= d[s]
    BY DEF Fits
  <1>1. peers[s][1] \in Peers
    BY TheOne DEF PeerFiles
  <1>2. peers[s][1].trust \in VeryLow..Full
    BY <1>1 DEF Peers
  <1>3. peers[s][1].trust \in Int
    <2>1. \A x \in VeryLow..Full : x \in Int
      OBVIOUS
    <2> QED
      BY <1>2, <2>1
  <1>4. peers[s][1].trust <= c[s] /\ c[s] <= d[s] /\ c[s] \in Nat /\ d[s] \in Nat
    BY DEF Fits
  <1> QED
    BY <1>3, <1>4

\* A step that keeps what was vouched for and earned: what must be looked at is
\* what it writes to a file or to its memory.
LEMMA StepBounded ==
  ASSUME Typed, Typed', TrustBounded, Grows, NEW p \in Procs,
         \A q \in Procs : q # p => proc'[q] = proc[q],
         \A n \in Nodes : \/ file'[n] = <<>> \/ file'[n] = file[n]
                          \/ Fits(file'[n][1], Ceiling(n)),
         \/ proc'[p].pc = "merged"
         \/ Fits(proc'[p].mem, Ceiling(Home[p])) \/ Fits(proc'[p].mem, Ceiling(Home[p])')
  PROVE  TrustBounded'
  <1>1. ASSUME NEW n \in Nodes, NEW peers \in PeerFiles, Fits(peers, Ceiling(n))
        PROVE  Fits(peers, Ceiling(n)')
    BY <1>1, CeilingShape, CeilingAfter, CeilingGrows, FitsHigher
  <1>2. ASSUME NEW n \in Nodes, file'[n] # <<>> PROVE Fits(file'[n][1], Ceiling(n)')
    <2>1. file'[n][1] \in PeerFiles
      BY <1>2, TheOne DEF Typed, Shapes
    <2>2. Fits(file'[n][1], Ceiling(n))
      BY <1>2 DEF TrustBounded
    <2> QED
      BY <1>1, <2>1, <2>2
  <1>3. ASSUME NEW q \in Procs, proc'[q].pc # "merged"
        PROVE  Fits(proc'[q].mem, Ceiling(Home[q])')
    <2>1. proc'[q].mem \in PeerFiles /\ Home[q] \in Nodes
      BY MergeAssumption DEF Typed, Shapes, Processes
    <2>2. CASE q = p
      BY <1>1, <1>3, <2>1, <2>2
    <2>3. CASE q # p
      <3>1. Fits(proc'[q].mem, Ceiling(Home[q]))
        BY <1>3, <2>3 DEF TrustBounded
      <3> QED
        BY <1>1, <2>1, <3>1
    <2> QED
      BY <2>2, <2>3
  <1> QED
    BY <1>2, <1>3 DEF TrustBounded

LEMMA QuietGrows ==
  ASSUME Typed, UNCHANGED <<vouched, earned>>
  PROVE  Grows
  BY DEF Typed, Shapes, Grows

LEMMA NobodyFits == ASSUME NEW ceiling PROVE Fits(NoPeers, ceiling)
  BY DEF Fits, NoPeers

LEMMA ProcessBounded ==
  ASSUME Typed, Typed', TrustBounded, NEW p \in Procs, Step(p)
  PROVE  TrustBounded'
  <1> DEFINE n == Home[p]
             mem == proc[p].mem
             slug == Slug(p)
  <1>0. /\ n \in Nodes /\ proc[p] \in Processes /\ mem \in PeerFiles
        /\ proc[p].pc # "merged" => Fits(mem, Ceiling(n))
    BY Here DEF TrustBounded, Processes
  <1>1. CASE StartAdd(p) \/ StartImport(p) \/ StartSync(p) \/ StartSyncAll(p)
    <2>1. PICK call : Calls(call) /\ Start(p, call)
      BY <1>1, StartTyped
    <2>2. /\ proc'[p] = [call EXCEPT !.mem = Loaded(n)]
          /\ \A q \in Procs : q # p => proc'[q] = proc[q]
      BY <2>1, StartShape
    <2>3. proc'[p].mem = Loaded(n)
      BY <2>1, <2>2 DEF Calls, Processes
    <2>4. Fits(Loaded(n), Ceiling(n))
      BY <1>0, NobodyFits DEF Loaded, TrustBounded
    <2>5. UNCHANGED <<file, vouched, earned>>
      BY <2>1 DEF Start
    <2> QED
      BY <2>2, <2>3, <2>4, <2>5, QuietGrows, StepBounded
  <1>2. CASE UnknownPeer(p) \/ SyncEnds(p) \/ ImportEnds(p) \/ Commit(p) \/ Kill(p)
    <2>1. proc'[p] = Idle /\ \A q \in Procs : q # p => proc'[q] = proc[q]
      BY <1>2, EndTyped
    <2>2. Fits(Idle.mem, Ceiling(n))
      BY NobodyFits DEF Idle
    <2>3. UNCHANGED <<file, vouched, earned>>
      BY <1>2 DEF UnknownPeer, SyncEnds, ImportEnds, Commit, Kill, history
    <2> QED
      BY <2>1, <2>2, <2>3, QuietGrows, StepBounded
  <1>3. CASE RejectPeer(p) \/ MergeArticle(p) \/ OpenFile(p) \/ Fetch(p) \/ FetchNothing(p)
             \/ TakeFact(p) \/ RejectFact(p) \/ SyncNext(p)
    <2>1. /\ \A q \in Procs : q # p => proc'[q] = proc[q]
          /\ proc'[p].mem = mem \/ proc'[p] = Idle
      <3>1. OpenFile(p) => proc'[p].mem = mem
        BY <1>0, OpenTyped DEF Processes
      <3> QED
        BY <1>3, <3>1, RejectTyped, ArticleTyped, OpenTyped, FetchTyped, ClaimTyped, SyncNextTyped
    <2>2. Fits(proc'[p].mem, Ceiling(n))
      <3>1. Fits(Idle.mem, Ceiling(n))
        BY NobodyFits DEF Idle
      <3>2. proc[p].pc # "merged"
        BY <1>3 DEF RejectPeer, MergeArticle, OpenFile, Fetch, FetchNothing, TakeFact, RejectFact,
           SyncNext
      <3> QED
        BY <1>0, <2>1, <3>1, <3>2
    <2>3. UNCHANGED <<vouched, earned>>
      BY <1>3 DEF RejectPeer, MergeArticle, OpenFile, Fetch, FetchNothing, TakeFact, RejectFact,
         SyncNext, history
    <2>4. \A m \in Nodes : file'[m] = <<>> \/ file'[m] = file[m]
      BY <1>3 DEF RejectPeer, MergeArticle, OpenFile, Fetch, FetchNothing, TakeFact, RejectFact,
         SyncNext, Typed, Shapes
    <2> QED
      BY <2>1, <2>2, <2>3, <2>4, QuietGrows, StepBounded
  <1>4. CASE AddPeer(p)
    <2>1. /\ \A q \in Procs : q # p => proc'[q] = proc[q]
          /\ \A s \in Nodes : s # slug => proc'[p].mem[s] = mem[s]
          /\ \A m \in Nodes : vouched[m] \subseteq vouched'[m]
          /\ \/ proc'[p].mem[slug][1].trust = Low
             \/ proc'[p].mem[slug][1].trust = Medium /\ slug \in vouched'[n]
      BY <1>4, AddTyped
    <2>2. UNCHANGED <<file, earned>>
      BY <1>4 DEF AddPeer
    <2>3. Grows
      BY <2>1, <2>2 DEF Grows, Typed, Shapes
    <2>4. ASSUME NEW s \in Nodes, proc'[p].mem[s] # <<>>
          PROVE  proc'[p].mem[s][1].trust <= Ceiling(n)'[s]
      <3>1. CASE s = slug
        <4>1. /\ Ceiling(n)'[s] \in Nat /\ earned'[n][s] \in Nat
              /\ Ceiling(n)'[s] >= Low + 50 * earned'[n][s]
              /\ s \in vouched'[n] => Ceiling(n)'[s] >= Medium
          <5>1. n \in Nodes /\ earned' \in [Nodes -> [Nodes -> Nat]]
            BY <1>0 DEF Typed, Shapes
          <5> HIDE DEF n
          <5>2. earned'[n][s] \in Nat
            BY <5>1
          <5>3. /\ Ceiling(n)' \in [Nodes -> Nat]
                /\ Ceiling(n)'[s] >= Low + 50 * earned'[n][s]
                /\ s \in vouched'[n] => Ceiling(n)'[s] >= Medium
            BY <5>1, CeilingAfter
          <5> QED
            BY <5>2, <5>3
        <4> HIDE DEF slug
        <4> QED
          BY <2>1, <3>1, <4>1 DEF Low, Medium
      <3>2. CASE s # slug
        <4>1. Fits(mem, Ceiling(n))
          BY <1>0, <1>4 DEF AddPeer
        <4>2. Fits(mem, Ceiling(n)')
          BY <1>0, <2>3, <4>1, CeilingShape, CeilingAfter, CeilingGrows, FitsHigher
        <4> QED
          BY <2>1, <2>4, <3>2, <4>2 DEF Fits
      <3> QED
        BY <3>1, <3>2
    <2>5. Fits(proc'[p].mem, Ceiling(n)')
      BY <2>4 DEF Fits
    <2> QED
      BY <2>1, <2>2, <2>3, <2>5, StepBounded
  <1>5. CASE DumpPeers(p)
    <2>1. /\ \A q \in Procs : q # p => proc'[q] = proc[q]
          /\ proc'[p].mem = mem \/ proc'[p] = Idle
      BY <1>5, DumpTyped
    <2>2. /\ \A m \in Nodes : m # n => file'[m] = file[m]
          /\ file'[n] = <<mem>> /\ UNCHANGED <<vouched, earned>>
      BY <1>0, <1>5 DEF DumpPeers, Typed, Shapes
    <2>3. Fits(mem, Ceiling(n)) /\ Fits(Idle.mem, Ceiling(n))
      BY <1>0, <1>5, NobodyFits DEF DumpPeers, Idle
    <2>4. file'[n][1] = mem
      BY <2>2
    <2>5. \A m \in Nodes : file'[m] = file[m] \/ Fits(file'[m][1], Ceiling(m))
      BY <2>2, <2>3, <2>4
    <2>6. Fits(proc'[p].mem, Ceiling(n))
      BY <2>1, <2>3
    <2> QED
      BY <2>1, <2>2, <2>5, <2>6, QuietGrows, StepBounded
  <1>6. CASE FactsDone(p)
    <2>1. /\ \A q \in Procs : q # p => proc'[q] = proc[q]
          /\ UNCHANGED <<file, vouched>> /\ proc[p].pc = "facts" /\ Fits(mem, Ceiling(n))
      BY <1>0, <1>6, DoneTyped, Zenon DEF FactsDone
    <2>2. CASE proc[p].op = "import"
      <3>1. proc'[p].mem = mem /\ UNCHANGED earned
        BY <1>6, <2>2, DoneTyped
      <3> QED
        BY <2>1, <3>1, QuietGrows, StepBounded
    <2>3. CASE proc[p].op # "import"
      <3> DEFINE t == mem[slug][1].trust
                 new == Adjusted(t, proc[p].accepted, proc[p].rejected)
                 e == earned[n][slug]
      <3>1. /\ proc'[p].mem = WithTrust(mem, slug, new)
            /\ earned' = (IF proc[p].accepted > 0
                          THEN [earned EXCEPT ![n][slug] = @ + 1] ELSE earned)
        BY <1>6, <2>3, DoneTyped
      <3>2. /\ slug \in Nodes /\ mem[slug] # <<>> /\ t \in VeryLow..Full
            /\ proc[p].accepted \in Nat /\ proc[p].rejected \in Nat
        <4>1. mem[slug][1] \in Peers /\ slug \in Nodes /\ mem[slug] # <<>>
          BY <2>1, <2>3, Here
        <4> QED
          BY <1>0, <4>1 DEF Peers, Processes
      <3>3. /\ new \in VeryLow..Full
            /\ proc[p].accepted > 0 => new <= t + 50
            /\ proc[p].accepted = 0 => new <= t
        BY <3>2, AdjustedBounds
      <3>4. /\ \A i, j \in Nodes : earned[i][j] <= earned'[i][j] /\ earned[i][j] \in Nat
            /\ proc[p].accepted > 0 => earned'[n][slug] = e + 1
        <4>1. earned \in [Nodes -> [Nodes -> Nat]]
          BY DEF Typed, Shapes
        <4>2. CASE proc[p].accepted > 0
          <5>1. earned' = [earned EXCEPT ![n][slug] = @ + 1]
            BY <3>1, <4>2
          <5> HIDE DEF n, slug
          <5>2. /\ earned' \in [Nodes -> [Nodes -> Nat]]
                /\ earned'[n][slug] = earned[n][slug] + 1
                /\ \A i, j \in Nodes : earned'[i][j] >= earned[i][j]
            BY <1>0, <3>2, <4>1, <5>1, EarnsOne
          <5> QED
            BY <4>1, <5>2
        <4>3. CASE ~(proc[p].accepted > 0)
          <5>1. earned' = earned /\ \A i, j \in Nodes : earned[i][j] \in Nat
            BY <3>1, <4>1, <4>3
          <5> QED
            BY <4>3, <5>1
        <4> QED
          BY <4>2, <4>3
      <3>5. Grows
        BY <2>1, <3>4 DEF Grows
      <3> HIDE DEF new
      <3>6. /\ proc'[p].mem[slug] # <<>> /\ proc'[p].mem[slug][1].trust = new
            /\ \A s \in Nodes : s # slug => proc'[p].mem[s] = mem[s]
        BY <1>0, <3>1, <3>2, <3>3, WithTrustShape
      <3>7. new <= Ceiling(n)'[slug]
        <4> DEFINE base == IF slug \in vouched[n] THEN Medium ELSE Low
                   f == earned'[n][slug]
        <4>1. t <= base + 50 * e /\ Ceiling(n)'[slug] = base + 50 * f
          <5>1. t <= Ceiling(n)[slug]
            BY <2>1, <3>2 DEF Fits
          <5>2. Ceiling(n)[slug] = base + 50 * e
            BY <3>2 DEF Ceiling
          <5>3. Ceiling(n)'[slug] = base + 50 * f
            BY <2>1, <3>2 DEF Ceiling
          <5> QED
            BY <5>1, <5>2, <5>3
        <4>2. e \in Nat /\ f \in Nat /\ e <= f
          BY <1>0, <3>2, <3>4 DEF Typed, Shapes
        <4>3. base \in Nat
          BY DEF Medium, Low
        <4>4. proc[p].accepted > 0 => f = e + 1
          BY <3>4
        <4>5. new \in Int /\ t \in Int
          <5>1. \A x \in VeryLow..Full : x \in Int
            OBVIOUS
          <5> HIDE DEF t
          <5> QED
            BY <3>2, <3>3, <5>1
        <4>6. proc[p].accepted \in Nat
          BY <3>2
        <4>7. \/ proc[p].accepted > 0 /\ new <= t + 50 /\ f = e + 1
              \/ proc[p].accepted = 0 /\ new <= t
          BY <3>3, <4>4, <4>6
        <4> HIDE DEF base, e, f, t
        <4>8. new <= base + 50 * f
          BY <4>1, <4>2, <4>3, <4>5, <4>7
        <4> QED
          BY <4>1, <4>8
      <3>8. Fits(mem, Ceiling(n)')
        BY <1>0, <2>1, <3>5, CeilingShape, CeilingAfter, CeilingGrows, FitsHigher
      <3>9. Fits(proc'[p].mem, Ceiling(n)')
        BY <3>6, <3>7, <3>8 DEF Fits
      <3> QED
        BY <2>1, <3>5, <3>9, StepBounded
    <2> QED
      BY <2>2, <2>3
  <1>7. CASE MergePersona(p)
    <2>1. /\ \A q \in Procs : q # p => proc'[q] = proc[q]
          /\ proc'[p].pc = "merged"
      BY <1>7, PersonaTyped
    <2>2. UNCHANGED <<file, vouched, earned>>
      BY <1>7 DEF MergePersona, history
    <2> QED
      BY <2>1, <2>2, QuietGrows, StepBounded
  <1> QED
    BY <1>1, <1>2, <1>3, <1>4, <1>5, <1>6, <1>7 DEF Step

(* Trust above the level a peer entered with is earned by syncs, also when *)
(* several processes write back copies of different age.                   *)
THEOREM TrustIsEarned == Spec => []TrustEarned
  <1>1. Init => TrustBounded
    <2>1. <<NoPeers>>[1] = NoPeers
      OBVIOUS
    <2> QED
      BY <2>1, NobodyFits, MergeAssumption DEF Init, TrustBounded, Idle
  <1>2. ASSUME Typed, Typed', TrustBounded, [Next]_vars PROVE TrustBounded'
    <2>1. CASE UNCHANGED vars
      BY <1>2, <2>1 DEF vars, history, TrustBounded, Ceiling
    <2>2. ASSUME NEW p \in Procs, Step(p) PROVE TrustBounded'
      BY <1>2, <2>2, ProcessBounded
    <2>3. ASSUME NEW n \in Nodes, Put(n) \/ PutArticle(n) \/ Export(n) PROVE TrustBounded'
      BY <1>2, <2>3 DEF Put, PutArticle, Export, history, TrustBounded, Ceiling
    <2>4. ASSUME NEW n \in Nodes, SetEndpoint(n) PROVE TrustBounded'
      <3>1. PICK slug \in Nodes :
              /\ file[n][1][slug] # <<>>
              /\ file' = [file EXCEPT ![n] = <<WithEndpoint(@[1], slug)>>]
        BY <2>4 DEF SetEndpoint
      <3>2. file[n] # <<>> /\ file[n][1] \in PeerFiles
        BY <1>2, <2>4, TheOne DEF SetEndpoint, Typed, Shapes
      <3>3. /\ WithEndpoint(file[n][1], slug)[slug][1].trust = file[n][1][slug][1].trust
            /\ \A s \in Nodes : s # slug => WithEndpoint(file[n][1], slug)[s] = file[n][1][s]
        BY <3>1, <3>2, WithEndpointShape
      <3>4. Fits(WithEndpoint(file[n][1], slug), Ceiling(n))
        BY <1>2, <3>1, <3>2, <3>3 DEF TrustBounded, Fits
      <3>5. \A m \in Nodes : file'[m] = IF m = n THEN <<WithEndpoint(file[n][1], slug)>> ELSE file[m]
        BY <1>2, <3>1 DEF Typed, Shapes
      <3>6. UNCHANGED <<proc, vouched, earned>>
        BY <2>4 DEF SetEndpoint
      <3>7. \A m \in Nodes : file'[m] # <<>> => Fits(file'[m][1], Ceiling(m))
        BY <1>2, <3>4, <3>5 DEF TrustBounded
      <3> QED
        BY <1>2, <3>6, <3>7 DEF TrustBounded, Ceiling
    <2> QED
      BY <1>2, <2>1, <2>2, <2>3, <2>4 DEF Next
  <1>3. Typed /\ TrustBounded /\ [Next]_vars => (Typed /\ TrustBounded)'
    BY <1>2, NextTyped
  <1>4. TrustBounded => TrustEarned
    BY DEF TrustBounded, Fits, Ceiling, TrustEarned
  <1> QED
    BY <1>1, <1>3, <1>4, InitTyped, PTL DEF Spec

-----------------------------------------------------------------------------
(* The file of peers *)

\* A copy of the peers that has everybody added but those in "but", with the
\* endpoints written into the file.
Covers(n, peers, but) ==
  \A s \in known[n] \ but :
    /\ peers[s] # <<>>
    /\ s \in reachable[n] => peers[s][1].endpoint

\* The peer a process has in memory and not yet in the file
Adding(p) ==
  IF proc[p].pc \in {"open", "dump"} /\ proc[p].op \in {"add", "import"} THEN {Slug(p)} ELSE {}

\* On a node where nothing went wrong one process runs at most, with a copy
\* that lacks nothing, and the file is whole unless that process is writing it.
Kept(n) ==
  ~disturbed[n] =>
    /\ \A p, q \in Procs :
         /\ Home[p] = n /\ proc[p].pc # "idle"
         /\ Home[q] = n /\ proc[q].pc # "idle"
         => p = q
    /\ file[n] = <<>> => \E p \in Procs : Home[p] = n /\ proc[p].pc = "dump"
    /\ file[n] # <<>> => Covers(n, file[n][1], {})
    /\ \A p \in Procs :
         Home[p] = n /\ proc[p].pc # "idle" => Covers(n, proc[p].mem, Adding(p))

\* A step on another node
LEMMA ElsewhereKept ==
  ASSUME NEW n \in Nodes, Kept(n), file'[n] = file[n], known'[n] = known[n],
         reachable'[n] = reachable[n], disturbed'[n] = disturbed[n],
         \A q \in Procs : Home[q] = n => proc'[q] = proc[q]
  PROVE  Kept(n)'
  BY DEF Kept, Covers, Adding, Slug

\* A step of a process that leaves the file alone
LEMMA MemoryKept ==
  ASSUME Typed, NEW p \in Procs, Kept(Home[p]), proc[p].pc \notin {"idle", "dump"},
         \A q \in Procs : q # p => proc'[q] = proc[q],
         UNCHANGED <<file, known, reachable>>, disturbed'[Home[p]] = disturbed[Home[p]],
         \/ proc'[p].pc = "idle"
         \/ Covers(Home[p], proc[p].mem, Adding(p)) => Covers(Home[p], proc'[p].mem, Adding(p)')
  PROVE  Kept(Home[p])'
  <1> DEFINE n == Home[p]
  <1> SUFFICES ASSUME ~disturbed'[n] PROVE Kept(n)'
    BY DEF Kept
  <1>1. ~disturbed[n]
    OBVIOUS
  <1>2. \A q \in Procs : q # p /\ Home[q] = n => proc'[q].pc = "idle"
    BY <1>1 DEF Kept
  <1>3. file[n] # <<>>
    BY <1>1 DEF Kept
  <1>4. Covers(n, file[n][1], {}) /\ Covers(n, proc[p].mem, Adding(p))
    BY <1>1, <1>3 DEF Kept
  <1>5. \A q \in Procs : Home[q] = n /\ proc'[q].pc # "idle" =>
          q = p /\ Covers(n, proc'[q].mem, Adding(q)')
    BY <1>2, <1>4
  <1> QED
    BY <1>3, <1>4, <1>5 DEF Kept, Covers

\* A process that is started: the node was quiet, and the file is read.
LEMMA StartKept ==
  ASSUME Typed, NEW p \in Procs, Kept(Home[p]), NEW call, Calls(call), Start(p, call)
  PROVE  Kept(Home[p])'
  <1> DEFINE n == Home[p]
  <1> SUFFICES ASSUME ~disturbed'[n] PROVE Kept(n)'
    BY DEF Kept
  <1>1. /\ proc'[p] = [call EXCEPT !.mem = Loaded(n)]
        /\ \A q \in Procs : q # p => proc'[q] = proc[q]
    BY StartShape
  <1>2. n \in Nodes /\ ~disturbed[n] /\ ~Busy(n) /\ UNCHANGED <<file, known, reachable>>
    <2>1. disturbed \in [Nodes -> BOOLEAN] /\ n \in Nodes
      BY Here DEF Typed, Shapes
    <2> QED
      BY <2>1 DEF Start
  <1>3. file[n] # <<>> /\ Covers(n, file[n][1], {})
    BY <1>2 DEF Kept, Busy
  <1>4. proc'[p].mem = file[n][1] /\ proc'[p].pc \notin {"open", "dump"}
    BY <1>1, <1>3 DEF Loaded, Calls, Processes
  <1>5. \A q \in Procs : Home[q] = n /\ proc'[q].pc # "idle" => q = p
    BY <1>1, <1>2 DEF Busy
  <1>6. Covers(n, proc'[p].mem, Adding(p)')
    BY <1>3, <1>4 DEF Adding
  <1> QED
    BY <1>2, <1>3, <1>5, <1>6 DEF Kept, Covers

\* The file is truncated by the only process there is.
LEMMA OpenKept ==
  ASSUME Typed, NEW p \in Procs, Kept(Home[p]), OpenFile(p)
  PROVE  Kept(Home[p])'
  <1> DEFINE n == Home[p]
  <1> SUFFICES ASSUME ~disturbed'[n] PROVE Kept(n)'
    BY DEF Kept
  <1>1. /\ \A q \in Procs : q # p => proc'[q] = proc[q]
        /\ proc'[p] = [proc[p] EXCEPT !.pc = "dump"]
    BY OpenTyped
  <1>2. /\ proc[p].pc = "open" /\ proc[p] \in Processes /\ ~disturbed[n]
        /\ file'[n] = <<>> /\ UNCHANGED <<known, reachable>>
    <2>1. file \in [Nodes -> Seq(PeerFiles)] /\ n \in Nodes
      BY Here DEF Typed, Shapes
    <2>2. proc[p] \in Processes
      BY Here
    <2> QED
      BY <2>1, <2>2 DEF OpenFile, history
  <1>3. /\ proc'[p].pc = "dump" /\ proc'[p].op = proc[p].op /\ proc'[p].slug = proc[p].slug
        /\ proc'[p].mem = proc[p].mem
    BY <1>1, <1>2 DEF Processes
  <1>4. Adding(p)' = Adding(p) /\ Covers(n, proc[p].mem, Adding(p))
    BY <1>2, <1>3 DEF Adding, Slug, Kept
  <1>5. \A q \in Procs : Home[q] = n /\ proc'[q].pc # "idle" => q = p
    BY <1>1, <1>2 DEF Kept
  <1>6. Covers(n, proc[p].mem, Adding(p))'
    BY <1>2, <1>3, <1>4 DEF Covers
  <1> QED
    BY <1>2, <1>3, <1>5, <1>6 DEF Kept

\* What was in memory is in the file, with the peer that was added.
LEMMA DumpKept ==
  ASSUME Typed, NEW p \in Procs, Kept(Home[p]), DumpPeers(p)
  PROVE  Kept(Home[p])'
  <1> DEFINE n == Home[p]
             mem == proc[p].mem
             adds == proc[p].op \in {"add", "import"}
  <1> SUFFICES ASSUME ~disturbed'[n] PROVE Kept(n)'
    BY DEF Kept
  <1>1. /\ \A q \in Procs : q # p => proc'[q] = proc[q]
        /\ \/ proc'[p] = Idle
           \/ proc'[p].mem = mem /\ proc'[p].pc \in {"facts", "synced", "persona"}
    BY DumpTyped
  <1>2. /\ proc[p].pc = "dump" /\ ~disturbed[n] /\ mem[Slug(p)] # <<>>
        /\ file'[n] = <<mem>> /\ file'[n] # <<>> /\ file'[n][1] = mem
    <2>1. file \in [Nodes -> Seq(PeerFiles)] /\ n \in Nodes
      BY Here DEF Typed, Shapes
    <2>2. proc[p].pc = "dump" /\ mem[Slug(p)] # <<>>
      BY Here DEF DumpPeers, Holding
    <2> QED
      BY <2>1, <2>2 DEF DumpPeers
  <1>3. /\ known'[n] = IF adds THEN known[n] \union {Slug(p)} ELSE known[n]
        /\ reachable'[n] = IF adds THEN reachable[n] \ {Slug(p)} ELSE reachable[n]
    <2>1. /\ known \in [Nodes -> SUBSET Nodes] /\ reachable \in [Nodes -> SUBSET Nodes]
          /\ n \in Nodes
      BY Here DEF Typed, Shapes
    <2> QED
      BY <2>1 DEF DumpPeers
  <1>4. /\ Covers(n, mem, Adding(p))
        /\ Adding(p) = IF adds THEN {Slug(p)} ELSE {}
    BY <1>2 DEF Kept, Adding
  <1>5. ASSUME NEW s \in known'[n]
        PROVE  mem[s] # <<>> /\ (s \in reachable'[n] => mem[s][1].endpoint)
    <2>1. CASE adds /\ s = Slug(p)
      BY <1>2, <1>3, <2>1
    <2>2. CASE ~(adds /\ s = Slug(p))
      BY <1>3, <1>4, <1>5, <2>2 DEF Covers
    <2> QED
      BY <2>1, <2>2
  <1>6. \A q \in Procs : Home[q] = n /\ proc'[q].pc # "idle" => q = p
    BY <1>1, <1>2 DEF Kept
  <1>7. proc'[p].pc # "idle" => proc'[p].mem = mem
    BY <1>1 DEF Idle
  <1> HIDE DEF mem, adds
  <1>8. Covers(n, file[n][1], {})'
    BY <1>2, <1>5 DEF Covers
  <1>9. \A q \in Procs : Home[q] = n /\ proc'[q].pc # "idle" => Covers(n, proc[q].mem, Adding(q))'
    BY <1>5, <1>6, <1>7 DEF Covers
  <1> QED
    BY <1>2, <1>6, <1>8, <1>9 DEF Kept

\* A process that is killed: while it wrote the file, the node is disturbed.
LEMMA KillKept ==
  ASSUME Typed, NEW p \in Procs, Kept(Home[p]), Kill(p)
  PROVE  Kept(Home[p])'
  <1> DEFINE n == Home[p]
  <1> SUFFICES ASSUME ~disturbed'[n] PROVE Kept(n)'
    BY DEF Kept
  <1>1. proc'[p] = Idle /\ \A q \in Procs : q # p => proc'[q] = proc[q]
    BY EndTyped
  <1>2. /\ proc[p].pc \notin {"idle", "dump"} /\ ~disturbed[n]
        /\ UNCHANGED <<file, known, reachable>>
    <2>1. disturbed \in [Nodes -> BOOLEAN] /\ n \in Nodes
      BY Here DEF Typed, Shapes
    <2> QED
      BY <2>1 DEF Kill
  <1>3. disturbed'[n] = disturbed[n]
    <2>1. disturbed'[n] \in BOOLEAN /\ disturbed[n] \in BOOLEAN
      BY Here, EndTyped DEF Typed, Shapes
    <2> QED
      BY <1>2, <2>1
  <1>4. proc'[p].pc = "idle"
    BY <1>1 DEF Idle
  <1> QED
    BY <1>1, <1>2, <1>3, <1>4, MemoryKept

\* The other steps of a process change its memory only.
LEMMA WorkKept ==
  ASSUME Typed, NEW p \in Procs, Kept(Home[p]),
         \/ RejectPeer(p) \/ UnknownPeer(p) \/ SyncEnds(p) \/ ImportEnds(p) \/ Commit(p)
         \/ AddPeer(p) \/ Fetch(p) \/ FetchNothing(p) \/ TakeFact(p) \/ RejectFact(p)
         \/ SyncNext(p) \/ FactsDone(p) \/ MergeArticle(p) \/ MergePersona(p)
  PROVE  Kept(Home[p])'
  <1> DEFINE n == Home[p]
             mem == proc[p].mem
             kept == Covers(n, mem, Adding(p)) => Covers(n, proc'[p].mem, Adding(p)')
  <1>1. /\ proc[p].pc \notin {"idle", "dump"}
        /\ UNCHANGED <<file, known, reachable, disturbed>>
    BY DEF RejectPeer, UnknownPeer, SyncEnds, ImportEnds, Commit, AddPeer, Fetch, FetchNothing,
       TakeFact, RejectFact, SyncNext, FactsDone, MergeArticle, MergePersona, history
  <1>2. known[n] \subseteq Nodes
    BY Here DEF Typed, Shapes
  <1>3. CASE UnknownPeer(p) \/ SyncEnds(p) \/ ImportEnds(p) \/ Commit(p)
    <2>1. proc'[p].pc = "idle" /\ \A q \in Procs : q # p => proc'[q] = proc[q]
      BY <1>3, EndTyped DEF Idle
    <2> QED
      BY <1>1, <2>1, MemoryKept
  <1>4. CASE AddPeer(p)
    <2>1. /\ \A q \in Procs : q # p => proc'[q] = proc[q]
          /\ proc'[p].pc = "open" /\ proc'[p].op = proc[p].op /\ proc'[p].slug = proc[p].slug
          /\ \A s \in Nodes : s # Slug(p) => proc'[p].mem[s] = mem[s]
      BY <1>4, AddTyped
    <2>2. proc[p].pc = "add" /\ proc[p].op \in {"add", "import"}
      BY <1>4, Here DEF AddPeer, Placed
    <2>3. Adding(p) = {} /\ Adding(p)' = {Slug(p)}
      BY <2>1, <2>2 DEF Adding, Slug
    <2>4. kept
      BY <1>2, <2>1, <2>3 DEF Covers
    <2> QED
      BY <1>1, <2>1, <2>4, MemoryKept
  <1>5. CASE Fetch(p) \/ FetchNothing(p) \/ TakeFact(p) \/ RejectFact(p) \/ SyncNext(p)
             \/ MergeArticle(p)
    <2>1. /\ \A q \in Procs : q # p => proc'[q] = proc[q]
          /\ proc'[p].mem = mem /\ proc'[p].pc \in {"facts", "fetch", "articles"}
      BY <1>5, FetchTyped, ClaimTyped, SyncNextTyped, ArticleTyped
    <2>2. proc[p].pc \in {"fetch", "facts", "synced", "articles"}
      BY <1>5 DEF Fetch, FetchNothing, TakeFact, RejectFact, SyncNext, MergeArticle
    <2>3. Adding(p) = {} /\ Adding(p)' = {}
      BY <2>1, <2>2 DEF Adding
    <2>4. kept
      BY <2>1, <2>3
    <2> QED
      BY <1>1, <2>1, <2>4, MemoryKept
  <1>6. CASE FactsDone(p)
    <2> DEFINE new == Adjusted(mem[Slug(p)][1].trust, proc[p].accepted, proc[p].rejected)
    <2>1. \A q \in Procs : q # p => proc'[q] = proc[q]
      BY <1>6, DoneTyped
    <2>2. CASE proc[p].op = "import"
      <3>1. proc'[p].pc = "articles" /\ proc'[p].mem = mem /\ proc[p].pc = "facts"
        BY <1>6, <2>2, DoneTyped DEF FactsDone
      <3>2. kept
        BY <3>1 DEF Adding
      <3> QED
        BY <1>1, <2>1, <3>2, MemoryKept
    <2>3. CASE proc[p].op # "import"
      <3>1. proc'[p].op = proc[p].op /\ proc'[p].mem = WithTrust(mem, Slug(p), new)
        BY <1>6, <2>3, DoneTyped
      <3>2. proc[p].pc = "facts" /\ proc[p].op \notin {"add", "import"}
        BY <1>6, <2>3, Here DEF FactsDone, Placed
      <3>3. /\ Slug(p) \in Nodes /\ mem[Slug(p)] # <<>> /\ mem \in PeerFiles
            /\ mem[Slug(p)][1].trust \in VeryLow..Full
            /\ proc[p].accepted \in Nat /\ proc[p].rejected \in Nat
        <4>1. mem[Slug(p)][1] \in Peers /\ Slug(p) \in Nodes /\ mem[Slug(p)] # <<>>
          BY <3>2, Here
        <4> QED
          BY <4>1, Here DEF Peers, Processes
      <3>4. new \in VeryLow..Full
        BY <3>3, AdjustedBounds
      <3> HIDE DEF new
      <3>5. /\ proc'[p].mem[Slug(p)] # <<>>
            /\ proc'[p].mem[Slug(p)][1].endpoint = mem[Slug(p)][1].endpoint
            /\ \A s \in Nodes : s # Slug(p) => proc'[p].mem[s] = mem[s]
        BY <3>1, <3>3, <3>4, WithTrustShape
      <3>6. Adding(p) = {} /\ Adding(p)' = {}
        BY <3>1, <3>2 DEF Adding
      <3>7. ASSUME Covers(n, mem, {}), NEW s \in known[n]
            PROVE  proc'[p].mem[s] # <<>> /\ (s \in reachable[n] => proc'[p].mem[s][1].endpoint)
        <4>1. s \in Nodes /\ mem[s] # <<>> /\ (s \in reachable[n] => mem[s][1].endpoint)
          BY <1>2, <3>7 DEF Covers
        <4>2. CASE s = Slug(p)
          BY <3>5, <4>1, <4>2
        <4>3. CASE s # Slug(p)
          BY <3>5, <4>1, <4>3
        <4> QED
          BY <4>2, <4>3
      <3>8. kept
        BY <3>6, <3>7 DEF Covers
      <3> QED
        BY <1>1, <2>1, <3>8, MemoryKept
    <2> QED
      BY <2>2, <2>3
  <1>7. CASE MergePersona(p)
    <2>1. /\ \A q \in Procs : q # p => proc'[q] = proc[q]
          /\ proc'[p].pc = "merged"
          /\ \A s \in Nodes : /\ proc'[p].mem[s] = <<>> <=> mem[s] = <<>>
                              /\ mem[s] # <<>> =>
                                   proc'[p].mem[s][1].endpoint = mem[s][1].endpoint
      BY <1>7, PersonaTyped
    <2>2. Adding(p) = {} /\ Adding(p)' = {}
      BY <1>7, <2>1 DEF Adding, MergePersona
    <2>3. kept
      BY <1>2, <2>1, <2>2 DEF Covers
    <2> QED
      BY <1>1, <2>1, <2>3, MemoryKept
  <1>8. CASE RejectPeer(p)
    <2>1. /\ \A q \in Procs : q # p => proc'[q] = proc[q]
          /\ \/ proc'[p] = Idle
             \/ proc'[p].pc = "facts" /\ proc'[p].mem = mem
      BY <1>8, RejectTyped
    <2>2. proc[p].pc = "add" /\ Idle.pc = "idle"
      BY <1>8 DEF RejectPeer, Idle
    <2>3. proc'[p].pc = "idle" \/ kept
      BY <2>1, <2>2 DEF Adding
    <2> QED
      BY <1>1, <2>1, <2>3, MemoryKept
  <1> QED
    BY <1>3, <1>4, <1>5, <1>6, <1>7, <1>8

\* Somebody writes an endpoint into the file of a quiet node.
LEMMA EndpointKept ==
  ASSUME Typed, NEW n \in Nodes, Kept(n), SetEndpoint(n)
  PROVE  Kept(n)'
  <1> SUFFICES ASSUME ~disturbed'[n] PROVE Kept(n)'
    BY DEF Kept
  <1>1. PICK slug \in Nodes :
          /\ file[n][1][slug] # <<>>
          /\ file' = [file EXCEPT ![n] = <<WithEndpoint(@[1], slug)>>]
          /\ reachable' = [reachable EXCEPT ![n] = @ \union {slug}]
    BY DEF SetEndpoint
  <1> DEFINE peers == file[n][1]
             new == WithEndpoint(peers, slug)
  <1>2. /\ file[n] # <<>> /\ peers \in PeerFiles /\ known[n] \subseteq Nodes
        /\ file'[n] = <<new>> /\ reachable'[n] = reachable[n] \union {slug}
    <2>1. file[n] # <<>> /\ file \in [Nodes -> Seq(PeerFiles)]
      BY DEF SetEndpoint, Typed, Shapes
    <2> QED
      BY <1>1, <2>1, TheOne DEF Typed, Shapes
  <1>3. ~disturbed[n] /\ UNCHANGED <<proc, known>> /\ \A q \in Procs : Home[q] = n => proc[q].pc = "idle"
    BY DEF SetEndpoint, Busy
  <1>4. Covers(n, peers, {})
    BY <1>2, <1>3 DEF Kept
  <1>5. /\ new[slug] # <<>> /\ new[slug][1].endpoint
        /\ \A s \in Nodes : s # slug => new[s] = peers[s]
    BY <1>1, <1>2, WithEndpointShape
  <1> HIDE DEF new
  <1>6. ASSUME NEW s \in known[n]
        PROVE  new[s] # <<>> /\ (s \in reachable'[n] => new[s][1].endpoint)
    BY <1>2, <1>4, <1>5 DEF Covers
  <1>7. file'[n] # <<>> /\ file'[n][1] = new
    BY <1>2
  <1> QED
    BY <1>3, <1>6, <1>7 DEF Kept, Covers

\* A step of a process changes nothing of the other nodes' files.
LEMMA OthersKept ==
  ASSUME Typed, NEW p \in Procs, Step(p), NEW n \in Nodes, n # Home[p], Kept(n)
  PROVE  Kept(n)'
  <1>1. /\ file \in [Nodes -> Seq(PeerFiles)] /\ disturbed \in [Nodes -> BOOLEAN]
        /\ known \in [Nodes -> SUBSET Nodes] /\ reachable \in [Nodes -> SUBSET Nodes]
    BY DEF Typed, Shapes
  <1>2. /\ file'[n] = file[n] /\ known'[n] = known[n] /\ reachable'[n] = reachable[n]
        /\ disturbed'[n] = disturbed[n]
    <2>1. CASE StartAdd(p) \/ StartImport(p) \/ StartSync(p) \/ StartSyncAll(p)
      <3>1. PICK call : Start(p, call)
        BY <2>1, StartTyped
      <3> QED
        BY <1>1, <3>1 DEF Start
    <2>2. CASE OpenFile(p)
      BY <1>1, <2>2 DEF OpenFile, history
    <2>3. CASE DumpPeers(p)
      BY <1>1, <2>3 DEF DumpPeers
    <2>4. CASE Kill(p)
      BY <1>1, <2>4 DEF Kill
    <2>5. CASE \/ RejectPeer(p) \/ UnknownPeer(p) \/ SyncEnds(p) \/ ImportEnds(p) \/ Commit(p)
               \/ AddPeer(p) \/ Fetch(p) \/ FetchNothing(p) \/ TakeFact(p) \/ RejectFact(p)
               \/ SyncNext(p) \/ FactsDone(p) \/ MergeArticle(p) \/ MergePersona(p)
      BY <2>5 DEF RejectPeer, UnknownPeer, SyncEnds, ImportEnds, Commit, AddPeer, Fetch,
         FetchNothing, TakeFact, RejectFact, SyncNext, FactsDone, MergeArticle, MergePersona,
         history
    <2> QED
      BY <2>1, <2>2, <2>3, <2>4, <2>5 DEF Step
  <1>3. \A q \in Procs : q # p => proc'[q] = proc[q]
    BY StartTyped, StartShape, EndTyped, RejectTyped, AddTyped, OpenTyped, DumpTyped, FetchTyped,
       ClaimTyped, DoneTyped, ArticleTyped, SyncNextTyped, PersonaTyped DEF Step
  <1> QED
    BY <1>2, <1>3, ElsewhereKept

(* While processes do not meet on a node, and none dies writing, no peer   *)
(* and no endpoint in the file is ever lost.                               *)
THEOREM PeersAreKept == Spec => []PeersSurvive
  <1> DEFINE Safe == \A n \in Nodes : Kept(n)
  <1>1. Init => Safe
    <2> SUFFICES ASSUME Init, NEW n \in Nodes PROVE Kept(n)
      OBVIOUS
    <2>1. /\ file[n] = <<NoPeers>> /\ known[n] = {}
          /\ \A q \in Procs : proc[q] = Idle /\ proc[q].pc = "idle"
      BY DEF Init, Idle
    <2>2. file[n] # <<>>
      BY <2>1
    <2> QED
      BY <2>1, <2>2 DEF Kept, Covers
  <1>2. ASSUME Typed, Safe, [Next]_vars PROVE Safe'
    <2>1. CASE UNCHANGED vars
      BY <1>2, <2>1 DEF vars, history, Kept, Covers, Adding, Slug
    <2>2. ASSUME NEW p \in Procs, Step(p) PROVE Safe'
      <3> DEFINE h == Home[p]
      <3>1. h \in Nodes /\ Kept(h)
        BY <1>2, Here
      <3>2. ASSUME StartAdd(p) \/ StartImport(p) \/ StartSync(p) \/ StartSyncAll(p)
            PROVE  Kept(h)'
        <4>1. PICK call : Calls(call) /\ Start(p, call)
          BY <1>2, <3>2, StartTyped
        <4> QED
          BY <1>2, <3>1, <4>1, StartKept
      <3>3. Kept(h)'
        BY <1>2, <2>2, <3>1, <3>2, OpenKept, DumpKept, KillKept, WorkKept DEF Step
      <3>4. ASSUME NEW n \in Nodes, n # h PROVE Kept(n)'
        BY <1>2, <2>2, <3>4, OthersKept
      <3> QED
        BY <3>3, <3>4
    <2>3. ASSUME NEW n \in Nodes, Put(n) \/ PutArticle(n) \/ Export(n) PROVE Safe'
      BY <1>2, <2>3 DEF Put, PutArticle, Export, history, Kept, Covers, Adding, Slug
    <2>4. ASSUME NEW n \in Nodes, SetEndpoint(n) PROVE Safe'
      <3>1. Kept(n)'
        BY <1>2, <2>4, EndpointKept
      <3>2. ASSUME NEW m \in Nodes, m # n PROVE Kept(m)'
        <4>1. /\ file'[m] = file[m] /\ reachable'[m] = reachable[m]
              /\ UNCHANGED <<proc, known, disturbed>>
          BY <1>2, <2>4, <3>2 DEF SetEndpoint, Typed, Shapes
        <4> QED
          BY <1>2, <4>1, ElsewhereKept
      <3> QED
        BY <3>1, <3>2
    <2> QED
      BY <1>2, <2>1, <2>2, <2>3, <2>4 DEF Next
  <1>3. Typed /\ Safe /\ [Next]_vars => (Typed /\ Safe)'
    BY <1>2, NextTyped
  <1>4. Safe => PeersSurvive
    BY DEF Kept, Covers, PeersSurvive
  <1> QED
    BY <1>1, <1>3, <1>4, InitTyped, PTL DEF Spec

-----------------------------------------------------------------------------
(* What a sync leaves in the wiki *)

\* What of the answer has been looked at is a prefix of it, no key comes twice,
\* and without a rejection all of that prefix is in the wiki, but for the keys
\* somebody else wrote.
Adopted(p, claim) ==
  \/ claim.key \in others[p]
  \/ wiki[Home[p]][claim.key] = <<[value |-> claim.value, source |-> "peer"]>>

Progress(p) ==
  proc[p].pc = "facts" /\ proc[p].op # "import" =>
    LET facts == proc[p].facts
        todo == proc[p].todo
    IN /\ \A i, j \in DOMAIN facts : facts[i].key = facts[j].key => i = j
       /\ \E done \in Nat :
            /\ Len(facts) = done + Len(todo)
            /\ \A i \in 1..Len(todo) : todo[i] = facts[done + i]
            /\ proc[p].rejected = 0 => \A i \in 1..done : Adopted(p, facts[i])

\* A step of somebody else: what it writes is noted.
LEMMA ProgressOfOthers ==
  ASSUME NEW p \in Procs, Progress(p), proc'[p] = proc[p],
         proc[p].pc = "facts" => others[p] \subseteq others'[p],
         \A k : proc[p].pc = "facts" =>
           wiki'[Home[p]][k] = wiki[Home[p]][k] \/ k \in others'[p]
  PROVE  Progress(p)'
  <1> SUFFICES ASSUME proc[p].pc = "facts", proc[p].op # "import" PROVE Progress(p)'
    BY DEF Progress
  <1> DEFINE facts == proc[p].facts
             todo == proc[p].todo
  <1>1. \A i, j \in DOMAIN facts : facts[i].key = facts[j].key => i = j
    BY DEF Progress
  <1>2. PICK done \in Nat :
          /\ Len(facts) = done + Len(todo)
          /\ \A i \in 1..Len(todo) : todo[i] = facts[done + i]
          /\ proc[p].rejected = 0 => \A i \in 1..done : Adopted(p, facts[i])
    BY DEF Progress
  <1>3. \A claim : Adopted(p, claim) => Adopted(p, claim)'
    BY DEF Adopted
  <1> QED
    BY <1>1, <1>2, <1>3 DEF Progress

\* The answer has arrived, and nothing of it is looked at.
LEMMA ProgressAtFirst ==
  ASSUME Typed, NEW p \in Procs, Fetch(p) \/ FetchNothing(p)
  PROVE  Progress(p)'
  <1>1. /\ proc'[p].todo = proc'[p].facts /\ proc'[p].facts \in Seq(Claims)
        /\ \A i, j \in DOMAIN proc'[p].facts :
             proc'[p].facts[i].key = proc'[p].facts[j].key => i = j
    BY FetchTyped DEF Typed, Shapes, Processes
  <1> DEFINE facts == proc'[p].facts
             adopted(c) == \/ c.key \in others'[p]
                           \/ wiki'[Home[p]][c.key] = <<[value |-> c.value, source |-> "peer"]>>
  <1>2. Len(facts) \in Nat
    BY <1>1
  <1>3. \E done \in Nat :
          /\ Len(facts) = done + Len(facts)
          /\ \A i \in 1..Len(facts) : facts[i] = facts[done + i]
          /\ proc'[p].rejected = 0 => \A i \in 1..done : adopted(facts[i])
    <2>1. 0 \in Nat /\ Len(facts) = 0 + Len(facts) /\ 1..0 = {}
      BY <1>2
    <2>2. \A i \in 1..Len(facts) : facts[i] = facts[0 + i]
      OBVIOUS
    <2> HIDE DEF facts, adopted
    <2> QED
      BY <2>1, <2>2
  <1> QED
    BY <1>1, <1>3 DEF Progress, Adopted

\* One claim is taken or rejected.
LEMMA ProgressByOne ==
  ASSUME Typed, NEW p \in Procs, Progress(p), TakeFact(p) \/ RejectFact(p)
  PROVE  Progress(p)'
  <1> DEFINE facts == proc[p].facts
             todo == proc[p].todo
             n == Home[p]
             adopted(c) == \/ c.key \in others'[p]
                           \/ wiki'[n][c.key] = <<[value |-> c.value, source |-> "peer"]>>
  <1>1. /\ proc'[p].pc = "facts" /\ proc'[p].todo = Tail(todo) /\ proc'[p].op = proc[p].op
        /\ proc'[p].facts = facts
        /\ TakeFact(p) => proc'[p].rejected = proc[p].rejected
        /\ RejectFact(p) => proc'[p].rejected > 0
    BY ClaimTyped
  <1>2. /\ proc[p].pc = "facts" /\ todo # <<>> /\ todo \in Seq(Claims) /\ facts \in Seq(Claims)
        /\ proc[p].rejected \in Nat /\ n \in Nodes
    BY Here DEF TakeFact, RejectFact, Processes
  <1> SUFFICES ASSUME proc[p].op # "import" PROVE Progress(p)'
    BY <1>1 DEF Progress
  <1>3. \A i, j \in DOMAIN facts : facts[i].key = facts[j].key => i = j
    BY <1>2 DEF Progress
  <1>4. PICK done \in Nat :
          /\ Len(facts) = done + Len(todo)
          /\ \A i \in 1..Len(todo) : todo[i] = facts[done + i]
          /\ proc[p].rejected = 0 => \A i \in 1..done : Adopted(p, facts[i])
    BY <1>2 DEF Progress
  <1>5. /\ Len(todo) \in Nat \ {0} /\ Len(Tail(todo)) = Len(todo) - 1
        /\ \A i \in 1..Len(Tail(todo)) : Tail(todo)[i] = todo[i + 1]
        /\ Head(todo) = todo[1]
    BY <1>2
  <1>6. /\ done + 1 \in Nat /\ Len(facts) = (done + 1) + Len(Tail(todo))
        /\ \A i \in 1..Len(Tail(todo)) : Tail(todo)[i] = facts[(done + 1) + i]
        /\ todo[1] = facts[done + 1]
    <2>1. ASSUME NEW i \in 1..Len(Tail(todo)) PROVE Tail(todo)[i] = facts[(done + 1) + i]
      <3>1. i + 1 \in 1..Len(todo) /\ done + (i + 1) = (done + 1) + i
        BY <1>5
      <3> QED
        BY <1>4, <1>5, <3>1
    <2>2. 1 \in 1..Len(todo)
      BY <1>5
    <2>3. todo[1] = facts[done + 1]
      BY <1>4, <2>2
    <2>4. done + 1 \in Nat /\ Len(facts) = (done + 1) + Len(Tail(todo))
      <3> DEFINE all == Len(facts)
                 some == Len(todo)
                 rest == Len(Tail(todo))
      <3>1. done \in Nat /\ all = done + some /\ some \in Nat /\ rest = some - 1
        BY <1>4, <1>5
      <3> HIDE DEF all, some, rest
      <3>2. done + 1 \in Nat /\ all = (done + 1) + rest
        BY <3>1
      <3> QED
        BY <3>2 DEF all, rest
    <2>5. \A i \in 1..Len(Tail(todo)) : Tail(todo)[i] = facts[(done + 1) + i]
      BY <2>1
    <2> QED
      BY <2>3, <2>4, <2>5
  <1>7. ASSUME proc'[p].rejected = 0, NEW i \in 1..(done + 1)
        PROVE  adopted(facts[i])
    <2> DEFINE claim == Head(todo)
               fact == [value |-> claim.value, source |-> "peer"]
    <2>1. TakeFact(p) /\ proc[p].rejected = 0
      BY <1>1, <1>7
    <2>2. /\ wiki \in [Nodes -> [Keys -> Seq(Stored)]] /\ claim \in Claims /\ claim.key \in Keys
          /\ wiki' = [wiki EXCEPT ![n][claim.key] = <<fact>>]
          /\ others'[p] = others[p]
      <3>1. others \in [Procs -> SUBSET Keys] /\ wiki \in [Nodes -> [Keys -> Seq(Stored)]]
        BY DEF Typed, Shapes
      <3>2. claim \in Claims
        BY <1>2
      <3>3. claim.key \in Keys
        BY <3>2 DEF Claims
      <3>4. Label(p) = "peer"
        BY DEF Label
      <3> QED
        BY <2>1, <3>1, <3>2, <3>3, <3>4 DEF TakeFact, Written
    <2>3. claim = facts[done + 1]
      BY <1>5, <1>6
    <2> HIDE DEF fact
    <2>4. /\ wiki'[n][claim.key] = <<fact>>
          /\ \A k \in Keys : k # claim.key => wiki'[n][k] = wiki[n][k]
      BY <1>2, <2>2
    <2>5. CASE i = done + 1
      BY <2>3, <2>4, <2>5 DEF fact
    <2>6. CASE i # done + 1
      <3>1. i \in 1..done /\ i \in DOMAIN facts /\ done + 1 \in DOMAIN facts
        BY <1>2, <1>4, <1>5, <1>7, <2>6
      <3>2. facts[i].key # claim.key
        BY <1>3, <2>3, <2>6, <3>1
      <3>3. facts[i] \in Claims
        BY <1>2, <3>1
      <3>4. facts[i].key \in Keys
        BY <3>3 DEF Claims
      <3>5. Adopted(p, facts[i])
        BY <1>4, <2>1, <3>1
      <3> QED
        BY <1>1, <2>2, <2>4, <3>2, <3>4, <3>5 DEF Adopted
    <2> QED
      BY <2>5, <2>6
  <1>8. \E k \in Nat :
          /\ Len(facts) = k + Len(Tail(todo))
          /\ \A i \in 1..Len(Tail(todo)) : Tail(todo)[i] = facts[k + i]
          /\ proc'[p].rejected = 0 => \A i \in 1..k : adopted(facts[i])
    <2> HIDE DEF facts, todo, adopted
    <2> QED
      BY <1>6, <1>7
  <1> QED
    BY <1>1, <1>3, <1>8 DEF Progress, Adopted

(* A sync without a rejection leaves the node with everything the peer     *)
(* answered, but for what others on the node wrote since.                  *)
THEOREM CleanSyncAdopts == Spec => []SyncAdopts
  <1> DEFINE All == \A p \in Procs : Progress(p)
  <1>1. Init => All
    BY DEF Init, Idle, Progress
  <1>2. ASSUME Typed, All, [Next]_vars PROVE All'
    <2>0. /\ wiki \in [Nodes -> [Keys -> Seq(Stored)]] /\ others \in [Procs -> SUBSET Keys]
          /\ Home \in [Procs -> Nodes]
      BY <1>2, MergeAssumption DEF Typed, Shapes
    <2>1. CASE UNCHANGED vars
      BY <1>2, <2>1, ProgressOfOthers DEF vars
    <2>2. ASSUME NEW p \in Procs, Step(p), NEW q \in Procs, q # p PROVE Progress(q)'
      <3>1. proc'[q] = proc[q]
        BY <1>2, <2>2, StartTyped, StartShape, EndTyped, RejectTyped, AddTyped, OpenTyped,
           DumpTyped, FetchTyped, ClaimTyped, DoneTyped, ArticleTyped, SyncNextTyped,
           PersonaTyped DEF Step
      <3>2. CASE TakeFact(p)
        <4> DEFINE n == Home[p]
                   key == Head(proc[p].todo).key
        <4>1. PICK fact : wiki' = [wiki EXCEPT ![n][key] = <<fact>>]
          BY <3>2 DEF TakeFact
        <4>2. others'[q] = (IF Home[q] = n /\ proc[q].pc = "facts"
                            THEN others[q] \union {key} ELSE others[q])
          BY <2>2, <3>2 DEF TakeFact, Written
        <4>3. ASSUME proc[q].pc = "facts", NEW k
              PROVE  wiki'[Home[q]][k] = wiki[Home[q]][k] \/ k \in others'[q]
          <5>1. CASE Home[q] = n /\ k = key
            BY <4>2, <4>3, <5>1
          <5>2. CASE ~(Home[q] = n /\ k = key)
            BY <2>0, <2>2, <4>1, <5>2
          <5> QED
            BY <5>1, <5>2
        <4>4. others[q] \subseteq others'[q]
          BY <4>2
        <4> QED
          BY <1>2, <3>1, <4>3, <4>4, ProgressOfOthers
      <3>3. CASE ~TakeFact(p)
        <4>1. wiki' = wiki /\ others'[q] = others[q]
          BY <2>0, <2>2, <3>3 DEF Step, StartAdd, StartImport, StartSync, StartSyncAll, Start,
             RejectPeer, AddPeer, OpenFile, DumpPeers, UnknownPeer, Fetch, FetchNothing,
             RejectFact, FactsDone, SyncNext, SyncEnds, MergeArticle, ImportEnds, MergePersona,
             Commit, Kill
        <4> QED
          BY <1>2, <3>1, <4>1, ProgressOfOthers
      <3> QED
        BY <3>2, <3>3
    <2>3. ASSUME NEW p \in Procs, Step(p) PROVE Progress(p)'
      <3>1. CASE Fetch(p) \/ FetchNothing(p)
        BY <1>2, <3>1, ProgressAtFirst
      <3>2. CASE TakeFact(p) \/ RejectFact(p)
        BY <1>2, <3>2, ProgressByOne
      <3>3. ASSUME proc'[p].pc # "facts" \/ proc'[p].op = "import" PROVE Progress(p)'
        BY <3>3 DEF Progress
      <3>4. CASE StartAdd(p) \/ StartImport(p) \/ StartSync(p) \/ StartSyncAll(p)
        <4>1. PICK call : Calls(call) /\ Start(p, call)
          BY <1>2, <3>4, StartTyped
        <4>2. proc'[p] = [call EXCEPT !.mem = Loaded(Home[p])] /\ call.pc # "facts"
          BY <1>2, <4>1, StartShape DEF Calls
        <4>3. proc'[p].pc # "facts"
          BY <4>1, <4>2 DEF Calls, Processes
        <4> QED
          BY <3>3, <4>3
      <3>5. CASE RejectPeer(p) \/ UnknownPeer(p) \/ SyncEnds(p) \/ ImportEnds(p) \/ Commit(p)
                 \/ Kill(p)
        BY <1>2, <3>3, <3>5, RejectTyped, EndTyped DEF Idle
      <3>6. CASE AddPeer(p) \/ SyncNext(p) \/ MergeArticle(p) \/ MergePersona(p)
        BY <1>2, <3>3, <3>6, AddTyped, SyncNextTyped, ArticleTyped, PersonaTyped
      <3>7. CASE OpenFile(p)
        <4>1. proc'[p] = [proc[p] EXCEPT !.pc = "dump"] /\ proc[p] \in Processes
          BY <1>2, <3>7, OpenTyped, Here
        <4>2. proc'[p].pc # "facts"
          BY <4>1 DEF Processes
        <4> QED
          BY <3>3, <4>2
      <3>8. CASE DumpPeers(p) \/ FactsDone(p)
        <4>1. \/ proc'[p] = Idle
              \/ proc'[p].pc = "facts" => proc'[p].op = "import"
          BY <1>2, <3>8, DumpTyped, DoneTyped
        <4>2. Idle.pc = "idle"
          BY DEF Idle
        <4>3. proc'[p].pc # "facts" \/ proc'[p].op = "import"
          BY <4>1, <4>2
        <4> QED
          BY <3>3, <4>3
      <3> QED
        BY <2>3, <3>1, <3>2, <3>4, <3>5, <3>6, <3>7, <3>8 DEF Step
    <2>4. ASSUME NEW n \in Nodes, Put(n), NEW q \in Procs PROVE Progress(q)'
      <3>1. PICK key \in Keys, value \in Values, source \in Sources :
              /\ wiki' = [wiki EXCEPT ![n][key] = <<[value |-> value, source |-> source]>>]
              /\ Written({}, n, key)
        BY <2>4 DEF Put
      <3>2. others'[q] = (IF Home[q] = n /\ proc[q].pc = "facts"
                          THEN others[q] \union {key} ELSE others[q])
        BY <2>4, <3>1 DEF Written
      <3>3. ASSUME proc[q].pc = "facts", NEW k
            PROVE  wiki'[Home[q]][k] = wiki[Home[q]][k] \/ k \in others'[q]
        <4>1. CASE Home[q] = n /\ k = key
          BY <3>2, <3>3, <4>1
        <4>2. CASE ~(Home[q] = n /\ k = key)
          BY <2>0, <2>4, <3>1, <4>2
        <4> QED
          BY <4>1, <4>2
      <3>4. proc' = proc /\ others[q] \subseteq others'[q]
        BY <2>4, <3>2 DEF Put
      <3> QED
        BY <1>2, <3>3, <3>4, ProgressOfOthers
    <2>5. ASSUME NEW n \in Nodes, PutArticle(n) \/ SetEndpoint(n) \/ Export(n) PROVE All'
      BY <1>2, <2>5, ProgressOfOthers DEF PutArticle, SetEndpoint, Export
    <2> QED
      BY <1>2, <2>1, <2>2, <2>3, <2>4, <2>5 DEF Next
  <1>3. Typed /\ All /\ [Next]_vars => (Typed /\ All)'
    BY <1>2, NextTyped
  <1>4. Typed /\ All => SyncAdopts
    <2> SUFFICES ASSUME Typed, All, NEW p \in Procs, proc[p].pc = "facts", proc[p].op # "import",
                        proc[p].todo = <<>>, proc[p].rejected = 0, NEW i \in DOMAIN proc[p].facts
                 PROVE  Adopted(p, proc[p].facts[i])
      BY DEF SyncAdopts, Adopted
    <2>1. PICK done \in Nat :
            /\ Len(proc[p].facts) = done + Len(proc[p].todo)
            /\ \A j \in 1..done : Adopted(p, proc[p].facts[j])
      BY DEF Progress
    <2>2. proc[p].facts \in Seq(Claims) /\ Len(proc[p].todo) = 0
      BY Here DEF Processes
    <2>3. i \in 1..done
      BY <2>1, <2>2
    <2> QED
      BY <2>1, <2>3
  <1> QED
    BY <1>1, <1>3, <1>4, InitTyped, PTL DEF Spec
=============================================================================

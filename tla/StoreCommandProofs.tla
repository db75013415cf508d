------------------------- MODULE StoreCommandProofs -------------------------
(***************************************************************************)
(* Proofs about StoreCommand, for all flags, products, sizes and durations *)
(* and any number of runs and of writes to the file: IInv is inductive,    *)
(* and every step of the command, of the SP and of the others is a step of *)
(* StorePromise or leaves it alone.  The builders are looked at first, for *)
(* all options.                                                            *)
(***************************************************************************)
EXTENDS StoreCommand, TLAPS

USE DEF command, sp, clocks

-----------------------------------------------------------------------------
(* The builders.                                                           *)

\* The options name a source just if they name one and not two.
LEMMA SourceOfRight ==
  ASSUME NEW o, o.HTTPPutSource \in BOOLEAN
  PROVE  /\ SourceOf(o) # {} <=> o.HTTPPutSource = (o.HTTPSourceURL = Unset)
         /\ \A s \in SourceOf(o) : s.put = (s.urls = {})
         /\ \A s, t \in SourceOf(o) : s = t
<1>1. CASE o.HTTPPutSource
  <2>1. CASE o.HTTPSourceURL = Unset
    <3>1. SourceOf(o) = {HTTPPut}
      BY <1>1, <2>1 DEF SourceOf
    <3>2. HTTPPut.put = TRUE /\ HTTPPut.urls = {}
      BY DEF HTTPPut
    <3>3. o.HTTPPutSource = (o.HTTPSourceURL = Unset)
      BY <1>1, <2>1, Zenon
    <3> QED BY <3>1, <3>2, <3>3
  <2>2. CASE o.HTTPSourceURL # Unset
    <3>1. SourceOf(o) = {}
      BY <1>1, <2>2 DEF SourceOf
    <3> QED BY <1>1, <2>2, <3>1
  <2> QED BY <2>1, <2>2
<1>2. CASE ~o.HTTPPutSource
  <2>1. CASE o.HTTPSourceURL = Unset
    <3>1. SourceOf(o) = {}
      BY <1>2, <2>1 DEF SourceOf
    <3> QED BY <1>2, <2>1, <3>1
  <2>2. CASE o.HTTPSourceURL # Unset
    <3>1. SourceOf(o) = {HTTP(o.HTTPSourceURL)}
      BY <1>2, <2>2 DEF SourceOf
    <3>2. /\ HTTP(o.HTTPSourceURL).put = FALSE
          /\ HTTP(o.HTTPSourceURL).urls # {}
      BY DEF HTTP
    <3>3. o.HTTPPutSource = (o.HTTPSourceURL = Unset)
      BY <1>2, <2>2, Zenon
    <3> QED BY <3>1, <3>2, <3>3
  <2> QED BY <2>1, <2>2
<1> QED BY <1>1, <1>2

\* There is data just if the options describe some, and only one.
LEMMA DataSourceRight ==
  ASSUME NEW o, o.PayloadSize \in Nat, o.HTTPPutSource \in BOOLEAN
  PROVE  /\ DataSource(o) # {} <=> DescribesData(o)
         /\ \A data \in DataSource(o) :
              /\ data.PieceCID = o.PieceCID /\ data.PieceCID # Unset
              /\ data.Source.put = (data.Source.urls = {})
         /\ \A d, e \in DataSource(o) : d = e
<1>1. CASE o.PieceCID = Unset \/ o.PayloadSize = 0
  <2>1. DataSource(o) = {}
    BY <1>1 DEF DataSource
  <2> QED BY <1>1, <2>1 DEF DescribesData
<1>2. CASE ~(o.PieceCID = Unset \/ o.PayloadSize = 0)
  <2>1. DataSource(o) =
          {[PieceCID |-> o.PieceCID, Format |-> Raw, Source |-> source] :
             source \in SourceOf(o)}
    BY <1>2 DEF DataSource
  <2>2. DescribesData(o) <=> SourceOf(o) # {}
    BY <1>2, SourceOfRight DEF DescribesData
  <2>3. DataSource(o) # {} <=> SourceOf(o) # {}
    BY <2>1, Zenon
  <2>4. \A d \in DataSource(o) :
          \E source \in SourceOf(o) :
             d = [PieceCID |-> o.PieceCID, Format |-> Raw, Source |-> source]
    BY <2>1, Zenon
  <2> QED BY <1>2, <2>2, <2>3, <2>4, SourceOfRight
<1> QED BY <1>1, <1>2

\* A builder makes no more of the data than one deal.
LEMMA DDODeals ==
  ASSUME NEW id, NEW o, NEW deal0
  PROVE  deal0 \in NewDDODeal(id, o) <=>
           /\ o.ClientAddress # Unset /\ o.ColdProvider # Unset
           /\ o.ColdAllocationID # Unset \/ o.ColdMarketAddress # Unset
           /\ \E data \in DataSource(o) :
                deal0 = Deal(id, o, {data}, {DDOV1(o)}, {}, {RetrievalV1(o)})
BY Zenon DEF NewDDODeal

LEMMA PDPDeals ==
  ASSUME NEW id, NEW o, NEW deal0
  PROVE  deal0 \in NewPDPDeal(id, o) <=>
           /\ o.ClientAddress # Unset
           /\ o.HotDataSetID # Unset /\ o.HotRecordKeeper # Unset
           /\ \E data \in DataSource(o) :
                deal0 = Deal(id, o, {data}, {}, {PDPV1(TRUE, o)}, {RetrievalV1(o)})
BY Zenon DEF NewPDPDeal

\* The builders are right about all options, not only those the run looks at.
THEOREM BuildersAlwaysRight ==
  ASSUME NEW id, NEW o, o.PayloadSize \in Nat, o.HTTPPutSource \in BOOLEAN
  PROVE  BuilderRight(id, o)
<1> DEFINE ddo == NewDDODeal(id, o)
           pdp == NewPDPDeal(id, o)
           create == NewPDPCreateDataSetDeal(id, o)
<1>1. ddo # {} <=> /\ o.ClientAddress # Unset /\ DescribesData(o)
                   /\ o.ColdProvider # Unset
                   /\ o.ColdAllocationID # Unset \/ o.ColdMarketAddress # Unset
  <2>1. ddo # {} <=> /\ o.ClientAddress # Unset /\ o.ColdProvider # Unset
                     /\ o.ColdAllocationID # Unset \/ o.ColdMarketAddress # Unset
                     /\ DataSource(o) # {}
    BY DDODeals, Zenon
  <2> QED BY <2>1, DataSourceRight
<1>2. pdp # {} <=> /\ o.ClientAddress # Unset /\ DescribesData(o)
                   /\ o.HotDataSetID # Unset /\ o.HotRecordKeeper # Unset
  <2>1. pdp # {} <=> /\ o.ClientAddress # Unset /\ DataSource(o) # {}
                     /\ o.HotDataSetID # Unset /\ o.HotRecordKeeper # Unset
    BY PDPDeals, Zenon
  <2> QED BY <2>1, DataSourceRight
<1>3. create # {} <=> o.ClientAddress # Unset /\ o.HotRecordKeeper # Unset
  BY DEF NewPDPCreateDataSetDeal
<1>4. ASSUME NEW deal0 \in ddo
      PROVE  /\ Sound(deal0)
             /\ deal0.Identifier = id /\ deal0.Client = o.ClientAddress
             /\ \A data \in deal0.Data : data.PieceCID = o.PieceCID
  <2>1. PICK data \in DataSource(o) :
          deal0 = Deal(id, o, {data}, {DDOV1(o)}, {}, {RetrievalV1(o)})
    BY DDODeals
  <2>2. o.ColdAllocationID # Unset \/ o.ColdMarketAddress # Unset
    BY DDODeals
  <2>3. /\ deal0.Identifier = id /\ deal0.Client = o.ClientAddress
        /\ deal0.Data = {data} /\ deal0.Products.DDOV1 = {DDOV1(o)}
        /\ deal0.Products.PDPV1 = {} /\ deal0.Products.RetrievalV1 # {}
    BY <2>1 DEF Deal
  <2>4. /\ DDOV1(o).Duration # 0
        /\ DDOV1(o).AllocationID # Unset \/ DDOV1(o).MarketAddress # Unset
    BY <2>2, DurationAssumption DEF DDOV1
  <2>5. OneProduct(deal0) /\ ProductsComplete(deal0)
    BY <2>3, <2>4 DEF OneProduct, ProductsComplete, HasData
  <2>6. SourceComplete(deal0)
    BY <2>3, DataSourceRight DEF SourceComplete
  <2> QED BY <2>3, <2>5, <2>6, DataSourceRight DEF Sound
<1>5. ASSUME NEW deal0 \in pdp
      PROVE  /\ Sound(deal0)
             /\ deal0.Identifier = id /\ deal0.Client = o.ClientAddress
             /\ \A data \in deal0.Data : data.PieceCID = o.PieceCID
  <2>1. PICK data \in DataSource(o) :
          deal0 = Deal(id, o, {data}, {}, {PDPV1(TRUE, o)}, {RetrievalV1(o)})
    BY PDPDeals
  <2>2. o.HotDataSetID # Unset /\ o.HotRecordKeeper # Unset
    BY PDPDeals
  <2>3. /\ deal0.Identifier = id /\ deal0.Client = o.ClientAddress
        /\ deal0.Data = {data} /\ deal0.Products.DDOV1 = {}
        /\ deal0.Products.PDPV1 = {PDPV1(TRUE, o)}
        /\ deal0.Products.RetrievalV1 # {}
    BY <2>1 DEF Deal
  <2>4. /\ PDPV1(TRUE, o).RecordKeeper # Unset
        /\ PDPV1(TRUE, o).DataSetID # Unset /\ PDPV1(TRUE, o).AddPiece = TRUE
    BY <2>2 DEF PDPV1
  <2>5. OneProduct(deal0) /\ ProductsComplete(deal0)
    BY <2>3, <2>4 DEF OneProduct, ProductsComplete, HasData
  <2>6. SourceComplete(deal0)
    BY <2>3, DataSourceRight DEF SourceComplete
  <2> QED BY <2>3, <2>5, <2>6, DataSourceRight DEF Sound
<1>6. ASSUME NEW deal0 \in create
      PROVE  /\ Sound(deal0)
             /\ deal0.Identifier = id /\ deal0.Client = o.ClientAddress
  <2>1. deal0 = Deal(id, o, {}, {},
                     {[PDPV1(FALSE, o) EXCEPT !.DataSetID = Unset]}, {})
    BY DEF NewPDPCreateDataSetDeal
  <2>2. o.HotRecordKeeper # Unset
    BY DEF NewPDPCreateDataSetDeal
  <2>3. /\ deal0.Identifier = id /\ deal0.Client = o.ClientAddress
        /\ deal0.Data = {} /\ deal0.Products.DDOV1 = {}
        /\ deal0.Products.PDPV1 =
             {[PDPV1(FALSE, o) EXCEPT !.DataSetID = Unset]}
        /\ deal0.Products.RetrievalV1 = {}
    BY <2>1 DEF Deal
  <2>4. OneProduct(deal0) /\ ProductsComplete(deal0) /\ SourceComplete(deal0)
    BY <2>2, <2>3 DEF OneProduct, ProductsComplete, SourceComplete, HasData, PDPV1
  <2> QED BY <2>3, <2>4 DEF Sound
<1> HIDE DEF ddo, pdp, create
<1>7. \A deal0 \in ddo \union pdp \union create :
        /\ Sound(deal0)
        /\ deal0.Identifier = id /\ deal0.Client = o.ClientAddress
  BY <1>4, <1>5, <1>6, Zenon
<1>8. \A deal0 \in ddo \union pdp : \A data \in deal0.Data :
        data.PieceCID = o.PieceCID
  BY <1>4, <1>5, Zenon
<1> QED BY <1>1, <1>2, <1>3, <1>7, <1>8, Zenon DEF BuilderRight, ddo, pdp, create

\* What the command gives to a builder, and what it gets.
LEMMA DealBuilt ==
  ASSUME NEW f \in FlagSets, FlagsOK(f), NEW r \in Runs, NEW p \in Bytes
  PROVE  /\ \A d \in BuiltDeal(f, r, p) :
              /\ d.Identifier = Identifier(r) /\ d.Client \in 0..MaxRuns
              /\ \E data : d.Data = {data} /\ data.PieceCID = p
         /\ \A d, e \in BuiltDeal(f, r, p) : d = e
         /\ EnoughToHash(p) /\ TierFlagsOK(f) => BuiltDeal(f, r, p) # {}
<1> DEFINE o == OptsOf(f, r, p)
<1>1. p.size \in Nat /\ p # Unset
  BY StoreAssumption DEF Bytes
<1>2. SignerOf(f, r) \in 0..MaxRuns /\ SignerOf(f, r) # Unset
  BY StoreAssumption, FlagsAssumption DEF SignerOf, WalletKey, Runs
<1>3. /\ o.PayloadSize \in Nat /\ o.HTTPPutSource \in BOOLEAN
      /\ o.PieceCID = p /\ o.ClientAddress = SignerOf(f, r)
      /\ o.PayloadSize = p.size /\ o.HTTPPutSource = TRUE
      /\ o.HTTPSourceURL = Unset /\ o.ColdProvider = f.provider
      /\ o.ColdAllocationID = UnsetIfZero(f.allocation)
      /\ o.ColdMarketAddress = f.marketAddr
      /\ o.HotDataSetID = UnsetIfZero(f.dataSet)
      /\ o.HotRecordKeeper = f.recordKeeper
  BY <1>1 DEF OptsOf
<1> HIDE DEF o
<1>4. /\ f.allocation # 0 => UnsetIfZero(f.allocation) # Unset
      /\ f.dataSet # 0 => UnsetIfZero(f.dataSet) # Unset
  BY StoreAssumption, FlagsAssumption DEF UnsetIfZero
<1>5. EnoughToHash(p) => DescribesData(o)
  BY <1>1, <1>3, StoreAssumption DEF EnoughToHash, DescribesData
<1>6. BuiltDeal(f, r, p) \in {NewPDPDeal(Identifier(r), o),
                              NewDDODeal(Identifier(r), o)}
  BY DEF BuiltDeal, o
<1>7. \A data \in DataSource(o) : data.PieceCID = p
  BY <1>3, DataSourceRight
<1>8. \A d \in BuiltDeal(f, r, p) :
        /\ d.Identifier = Identifier(r) /\ d.Client = SignerOf(f, r)
        /\ \E data : d.Data = {data} /\ data.PieceCID = p
  <2>1. \A d \in BuiltDeal(f, r, p) : \E data \in DataSource(o) :
          /\ d.Identifier = Identifier(r) /\ d.Client = o.ClientAddress
          /\ d.Data = {data}
    <3> SUFFICES ASSUME NEW d \in BuiltDeal(f, r, p)
                 PROVE  \E data \in DataSource(o) :
                          /\ d.Identifier = Identifier(r)
                          /\ d.Client = o.ClientAddress /\ d.Data = {data}
      OBVIOUS
    <3>1. CASE d \in NewDDODeal(Identifier(r), o)
      <4>1. PICK data \in DataSource(o) :
              d = Deal(Identifier(r), o, {data}, {DDOV1(o)}, {}, {RetrievalV1(o)})
        BY <3>1, DDODeals
      <4> QED BY <4>1 DEF Deal
    <3>2. CASE d \in NewPDPDeal(Identifier(r), o)
      <4>1. PICK data \in DataSource(o) :
              d = Deal(Identifier(r), o, {data}, {}, {PDPV1(TRUE, o)},
                       {RetrievalV1(o)})
        BY <3>2, PDPDeals
      <4> QED BY <4>1 DEF Deal
    <3> QED BY <1>6, <3>1, <3>2
  <2> QED BY <1>3, <1>7, <2>1
<1>9. \A d, e \in BuiltDeal(f, r, p) : d = e
  <2>1. \A d, e \in DataSource(o) : d = e
    BY <1>3, DataSourceRight
  <2>2. \A d, e \in NewPDPDeal(Identifier(r), o) : d = e
    <3> SUFFICES ASSUME NEW d \in NewPDPDeal(Identifier(r), o),
                        NEW e \in NewPDPDeal(Identifier(r), o)
                 PROVE  d = e
      OBVIOUS
    <3>1. PICK data \in DataSource(o) :
            d = Deal(Identifier(r), o, {data}, {}, {PDPV1(TRUE, o)}, {RetrievalV1(o)})
      BY PDPDeals
    <3>2. PICK same \in DataSource(o) :
            e = Deal(Identifier(r), o, {same}, {}, {PDPV1(TRUE, o)}, {RetrievalV1(o)})
      BY PDPDeals
    <3> QED BY <2>1, <3>1, <3>2
  <2>3. \A d, e \in NewDDODeal(Identifier(r), o) : d = e
    <3> SUFFICES ASSUME NEW d \in NewDDODeal(Identifier(r), o),
                        NEW e \in NewDDODeal(Identifier(r), o)
                 PROVE  d = e
      OBVIOUS
    <3>1. PICK data \in DataSource(o) :
            d = Deal(Identifier(r), o, {data}, {DDOV1(o)}, {}, {RetrievalV1(o)})
      BY DDODeals
    <3>2. PICK same \in DataSource(o) :
            e = Deal(Identifier(r), o, {same}, {DDOV1(o)}, {}, {RetrievalV1(o)})
      BY DDODeals
    <3> QED BY <2>1, <3>1, <3>2
  <2> QED BY <1>6, <2>2, <2>3
<1>10. ASSUME EnoughToHash(p), TierFlagsOK(f)  PROVE BuiltDeal(f, r, p) # {}
  <2>1. BuilderRight(Identifier(r), o)
    BY <1>3, BuildersAlwaysRight
  <2>2. CASE f.tier = "hot"
    BY <1>2, <1>3, <1>4, <1>5, <1>10, <2>1, <2>2
    DEF BuilderRight, BuiltDeal, TierFlagsOK, o
  <2>3. CASE f.tier # "hot"
    BY <1>2, <1>3, <1>4, <1>5, <1>10, <2>1, <2>3
    DEF BuilderRight, BuiltDeal, TierFlagsOK, FlagsOK, o
  <2> QED BY <2>2, <2>3
<1> QED BY <1>2, <1>8, <1>9, <1>10

-----------------------------------------------------------------------------
(* What is read of the file.                                               *)

Files == [ver : 0..MaxWrites, size : Sizes]

\* Bytes are read, and of a file that nobody wrote meanwhile the whole of it.
LEMMA Reading ==
  ASSUME NEW from \in Files, NEW now \in Files,
         NEW b \in ReadBytes(from, now) \union SentBytes(from, now)
  PROVE  b \in Bytes /\ b # NoBytes /\ (from = now => b = Whole(now))
<1>1. b \in ReadBytes(from, now)
  BY DEF SentBytes
<1>2. PICK lo \in from.ver..now.ver, size \in {from.size, now.size} :
        /\ b = [lo |-> lo, hi |-> now.ver, size |-> size]
  BY <1>1 DEF ReadBytes
<1>3. lo \in 0..MaxWrites /\ now.ver \in 0..MaxWrites /\ size \in Sizes
  BY <1>2, StoreAssumption DEF Files
<1>4. b \in Bytes /\ b # NoBytes
  BY <1>2, <1>3, StoreAssumption DEF Bytes, NoBytes
<1>5. from = now => b = Whole(now)
  BY <1>2, <1>3 DEF Whole, Files
<1> QED BY <1>4, <1>5

\* Bytes that were read are not confused with none.
LEMMA BytesAreSome == NoBytes \notin Bytes
BY StoreAssumption DEF Bytes, NoBytes

\* A record is not confused with none.
LEMMA RecordsAreSome == NoRecord \notin Records
BY DEF Records, NoRecord

-----------------------------------------------------------------------------
(* Every step keeps the invariant.                                         *)

\* The time a run may take is the longer of two.
LEMMA LatestIsLonger ==
  /\ Latest \in Nat /\ Deadline <= Latest /\ HashTime <= Latest
  /\ 0 \in 0..Latest + 1
BY StoreAssumption DEF Latest

\* The runs so far are among those there may be.
LEMMA RunsSoFar == ASSUME TypeOK PROVE 1..run \subseteq Runs
BY StoreAssumption DEF TypeOK, Runs

LEMMA InitInv == Init => IInv
<1> SUFFICES ASSUME Init PROVE IInv
  OBVIOUS
<1>1. flags \in FlagSets
  BY FlagsAssumption DEF Init
<1>2. TypeOK
  <2>1. pc = "exit" /\ exit = "error" /\ run \in 0..MaxRuns
    BY StoreAssumption DEF Init
  <2>2. stopped \in BOOLEAN
    BY Zenon DEF Init
  <2>3. age \in 0..Latest + 1
    BY LatestIsLonger DEF Init
  <2>4. file \in Files /\ reading \in Files
    BY StoreAssumption DEF Init, Files
  <2>5. since \in [Runs -> 0..MaxWrites]
    BY StoreAssumption DEF Init
  <2>6. deals \in [Runs -> Records \union {NoRecord}] /\ net = {}
    BY DEF Init
  <2>7. piece \in Bytes \union {NoBytes}
    BY DEF Init
  <2> QED BY <1>1, <2>1, <2>4, <2>5, <2>6, <2>7, <2>3, <2>2 DEF TypeOK, Files
<1>3. CallInv /\ DealInv /\ StageInv /\ KeptInv /\ ReturnsInTime
  BY StoreAssumption
  DEF Init, CallInv, DealInv, StageInv, KeptInv, ReturnsInTime, NetworkCalls, Runs
<1> QED BY <1>2, <1>3 DEF IInv

LEMMA RunPreserves == IInv /\ Run => IInv'
<1> SUFFICES ASSUME IInv, Run PROVE IInv'
  OBVIOUS
<1> USE DEF IInv, Run, Exit
<1>1. run' \in Runs /\ run \in 0..MaxRuns /\ run' = run + 1
  BY StoreAssumption DEF TypeOK, Runs
<1>2. TypeOK'
  <2>1. /\ pc' \in {"hash", "exit"} /\ exit' \in {"none", "ok", "error"}
        /\ (exit' = "none") = (pc' # "exit")
    OBVIOUS
  <2>2. run' \in 0..MaxRuns /\ flags' \in FlagSets
    BY <1>1 DEF Runs
  <2>3. stopped' \in BOOLEAN
    BY Zenon
  <2>4. age' \in 0..Latest + 1
    BY LatestIsLonger
  <2>5. since' \in [Runs -> 0..MaxWrites]
    BY <1>1 DEF TypeOK
  <2>6. \A m \in net' : m.run \in 1..run'
    BY <1>1 DEF TypeOK
  <2> QED BY <2>1, <2>5, <2>6, <2>2, <2>4, <2>3 DEF TypeOK, Calls
<1>3. deals[run'] = NoRecord /\ \A m \in net : m.run # run'
  BY <1>1 DEF DealInv, TypeOK
<1>4. CallInv'
  BY <1>1 DEF CallInv, NetworkCalls
<1>5. DealInv'
  BY <1>1, <1>3 DEF DealInv, Runs, TypeOK
<1>6. StageInv'
  BY <1>1, <1>3 DEF StageInv
<1>7. KeptInv'
  <2>1. UNCHANGED <<file, net, deals>> /\ reading' = file /\ piece' = NoBytes
    OBVIOUS
  <2>2. /\ since'[run'] = file.ver /\ file.ver \in Int
        /\ \A r \in Runs : r # run' => since'[r] = since[r]
    BY <1>1, StoreAssumption DEF TypeOK
  <2>3. \A r \in 1..run' : r \in Runs
    BY <1>1, StoreAssumption DEF Runs
  <2>4. \A r \in 1..run' : r # run' => r \in 1..run
    BY <1>1
  <2> SUFFICES ASSUME NEW r \in 1..run'
               PROVE  /\ since'[r] <= file.ver
                      /\ since'[r] = file.ver =>
                           /\ \A m \in net :
                                m.run = r => BytesOf(m) \subseteq {Whole(file)}
                           /\ deals[r] # NoRecord =>
                                /\ deals[r].piece = Whole(file)
                                /\ deals[r].held \in {Whole(file), NoBytes}
    BY <2>1 DEF KeptInv, BytesOf, Whole
  <2>5. CASE r = run'
    BY <1>3, <2>2, <2>5
  <2>6. CASE r # run'
    BY <2>2, <2>3, <2>4, <2>6 DEF KeptInv
  <2> QED BY <2>5, <2>6
<1>8. ReturnsInTime'
  BY StoreAssumption DEF ReturnsInTime, Latest
<1> QED BY <1>2, <1>4, <1>5, <1>6, <1>7, <1>8

LEMMA HashedPreserves == IInv /\ Hashed => IInv'
<1> SUFFICES ASSUME IInv, Hashed PROVE IInv'
  OBVIOUS
<1> USE DEF IInv, Hashed, Exit, Goto
<1>1. PICK b \in ReadBytes(reading, file) :
        \/ EnoughToHash(b) /\ piece' = b /\ Goto("signer")
        \/ ~EnoughToHash(b) /\ Exit("error") /\ UNCHANGED piece
  OBVIOUS
<1>2. b \in Bytes /\ (reading = file => b = Whole(file))
  BY Reading DEF TypeOK, Files
<1>3. TypeOK'
  BY <1>1, <1>2 DEF TypeOK, Calls
<1>4. CallInv'
  BY <1>1, <1>2 DEF CallInv, NetworkCalls
<1>5. DealInv'
  BY DEF DealInv
<1>6. StageInv'
  BY <1>1 DEF StageInv
<1>7. KeptInv'
  BY <1>1, <1>2 DEF KeptInv, BytesOf
<1>8. ReturnsInTime'
  BY <1>1 DEF ReturnsInTime
<1> QED BY <1>3, <1>4, <1>5, <1>6, <1>7, <1>8

\* Whatever fails, the command exits and leaves all else alone.
LEMMA FailsPreserves == ASSUME NEW call PROVE IInv /\ Fails(call) => IInv'
<1> SUFFICES ASSUME IInv, Fails(call) PROVE IInv'
  OBVIOUS
<1> USE DEF IInv, Fails, Exit
<1>1. TypeOK'
  BY DEF TypeOK
<1>2. CallInv' /\ DealInv' /\ StageInv' /\ ReturnsInTime'
  BY DEF CallInv, DealInv, StageInv, ReturnsInTime, NetworkCalls
<1>3. KeptInv'
  BY DEF KeptInv, BytesOf
<1> QED BY <1>1, <1>2, <1>3

\* The calls before the deal is built, and those that only wait for the SP.
LEMMA AnswersPreserve ==
  IInv /\ (Signed \/ Probed \/ Submitted \/ Uploaded \/ PolledToEnd) => IInv'
<1> SUFFICES ASSUME IInv, Signed \/ Probed \/ Submitted \/ Uploaded \/ PolledToEnd
             PROVE  IInv'
  OBVIOUS
<1> USE DEF IInv, Signed, Probed, Submitted, Uploaded, PolledToEnd, Exit, Goto
<1>1. UNCHANGED <<command, clocks, net, sp>>
  OBVIOUS
<1>2. TypeOK'
  BY DEF TypeOK, Calls, NetworkCalls
<1>3. CallInv'
  BY FlagsAssumption DEF CallInv, TypeOK, NetworkCalls
<1>4. DealInv'
  BY <1>1 DEF DealInv
<1>5. StageInv'
  BY DEF StageInv, Answered
<1>6. KeptInv'
  BY <1>1 DEF KeptInv, BytesOf
<1>7. ReturnsInTime'
  BY DEF ReturnsInTime
<1> QED BY <1>2, <1>3, <1>4, <1>5, <1>6, <1>7

LEMMA BuildPreserves == IInv /\ Build => IInv'
<1> SUFFICES ASSUME IInv, Build PROVE IInv'
  OBVIOUS
<1> USE DEF IInv, Build, Exit, Goto
<1>1. UNCHANGED <<run, flags, reading, piece, since, clocks, net, sp>>
  OBVIOUS
<1>2. TypeOK'
  BY DEF TypeOK, Calls
<1>3. CallInv'
  BY FlagsAssumption DEF CallInv, TypeOK, NetworkCalls
<1>4. DealInv'
  BY <1>1 DEF DealInv
<1>5. StageInv'
  BY DEF StageInv
<1>6. KeptInv'
  BY <1>1 DEF KeptInv, BytesOf
<1>7. ReturnsInTime'
  BY DEF ReturnsInTime
<1> QED BY <1>2, <1>3, <1>4, <1>5, <1>6, <1>7

LEMMA SubmitPreserves == IInv /\ Submit => IInv'
<1> SUFFICES ASSUME IInv, Submit PROVE IInv'
  OBVIOUS
<1> USE DEF IInv, Submit, Exit, Goto
<1>1. CASE CtxDone
  BY <1>1, FailsPreserves DEF Fails
<1>2. CASE ~CtxDone
  <2>1. run \in Runs /\ flags \in FlagSets /\ FlagsOK(flags) /\ ~flags.dry
    BY FlagsAssumption DEF CallInv, TypeOK, NetworkCalls
  <2>2. piece \in Bytes /\ deal # {} /\ deal = BuiltDeal(flags, run, piece)
    BY DEF CallInv
  <2>3. PICK d \in deal : deal = {d}
    BY <2>1, <2>2, DealBuilt
  <2>4. /\ d.Identifier = Identifier(run) /\ d.Client \in 0..MaxRuns
        /\ \A data \in d.Data : data.PieceCID = piece
    BY <2>1, <2>2, DealBuilt
  <2> DEFINE m0 == [what |-> "deal", run |-> run, deal |-> d]
  <2>5. net' = net \union {m0}
    BY <1>2, <2>3
  <2>6. m0.what = "deal" /\ m0.run = run /\ m0.deal = d
    OBVIOUS
  <2> HIDE DEF m0
  <2>7. deals[run] = NoRecord /\ \A m \in net : m.run # run
    BY DEF StageInv
  <2>8. TypeOK'
    BY <1>2, <2>1, <2>5, <2>6 DEF TypeOK, Calls, NetworkCalls, Runs
  <2>9. CallInv'
    BY <1>2 DEF CallInv, NetworkCalls
  <2>10. DealInv'
    BY <1>2, <2>1, <2>2, <2>4, <2>5, <2>6, <2>7 DEF DealInv
  <2>11. StageInv'
    BY <1>2, <2>5, <2>6 DEF StageInv, Answered
  <2>12. KeptInv'
    <3>1. BytesOf(m0) \subseteq {piece}
      BY <2>4, <2>6 DEF BytesOf
    <3>2. piece # NoBytes
      BY <2>2, BytesAreSome
    <3>3. \A m \in net : BytesOf(m)' = BytesOf(m)
      BY DEF BytesOf
    <3>4. UNCHANGED <<run, file, reading, piece, since, deals>>
      BY <1>2
    <3>5. \A r \in 1..run : since[r] = file.ver =>
            \A m \in net' : m.run = r => BytesOf(m) \subseteq {Whole(file)}
      BY <2>5, <2>6, <3>1, <3>2 DEF KeptInv
    <3> QED BY <3>4, <3>5 DEF KeptInv, Whole, BytesOf
  <2>13. ReturnsInTime'
    BY <1>2 DEF ReturnsInTime
  <2> QED BY <2>8, <2>9, <2>10, <2>11, <2>12, <2>13
<1> QED BY <1>1, <1>2

LEMMA OpenPreserves == IInv /\ Open => IInv'
<1> SUFFICES ASSUME IInv, Open PROVE IInv'
  OBVIOUS
<1> USE DEF IInv, Open, Goto
<1>1. UNCHANGED <<run, flags, deal, piece, since, clocks, net, sp>>
  OBVIOUS
<1>2. TypeOK'
  BY DEF TypeOK, Calls, NetworkCalls
<1>3. CallInv' /\ StageInv'
  BY DEF CallInv, NetworkCalls, StageInv, Answered
<1>4. DealInv'
  BY <1>1 DEF DealInv
<1>5. KeptInv'
  BY DEF KeptInv, BytesOf
<1>6. ReturnsInTime'
  BY DEF ReturnsInTime
<1> QED BY <1>2, <1>3, <1>4, <1>5, <1>6

LEMMA SendPreserves == IInv /\ Send => IInv'
<1> SUFFICES ASSUME IInv, Send PROVE IInv'
  OBVIOUS
<1> USE DEF IInv, Send, Goto
<1>1. PICK b \in SentBytes(reading, file) :
        net' = net \union {[what |-> "finalize", run |-> run, body |-> b]}
  OBVIOUS
<1>2. b \in Bytes /\ (reading = file => b = Whole(file))
  BY Reading DEF TypeOK, Files
<1> DEFINE m0 == [what |-> "finalize", run |-> run, body |-> b]
<1>3. m0.what = "finalize" /\ m0.run = run /\ m0.body = b
  OBVIOUS
<1>4. net' = net \union {m0}
  BY <1>1
<1> HIDE DEF m0
<1>5. run \in Runs /\ flags \in FlagSets /\ ~flags.dry
  BY DEF CallInv, TypeOK, NetworkCalls
<1>6. TypeOK'
  BY <1>2, <1>3, <1>4, <1>5 DEF TypeOK, Calls, NetworkCalls, Runs
<1>7. CallInv'
  BY DEF CallInv, NetworkCalls
<1>8. DealInv'
  BY <1>3, <1>4, <1>5 DEF DealInv
<1>9. StageInv'
  BY <1>3, <1>4 DEF StageInv, Answered
<1>10. KeptInv'
  <2>1. BytesOf(m0) = {b}
    BY <1>3 DEF BytesOf
  <2>2. \A r \in 1..run : since[r] = file.ver =>
          \A m \in net' : m.run = r => BytesOf(m) \subseteq {Whole(file)}
    BY <1>2, <1>3, <1>4, <2>1 DEF KeptInv
  <2> QED BY <2>2 DEF KeptInv, Whole, BytesOf
<1>11. ReturnsInTime'
  BY DEF ReturnsInTime
<1> QED BY <1>6, <1>7, <1>8, <1>9, <1>10, <1>11

LEMMA CtxEndsCallPreserves == IInv /\ CtxEndsCall => IInv'
BY FailsPreserves DEF CtxEndsCall

LEMMA FailurePreserves == IInv /\ Failure => IInv'
BY FailsPreserves DEF Failure, HashFails, SignerFails, ProbeFails, SubmitFails,
   OpenFails, SendFails, FinalizeFails, PollFails

LEMMA AcceptDealPreserves == IInv /\ AcceptDeal => IInv'
<1> SUFFICES ASSUME IInv, AcceptDeal PROVE IInv'
  OBVIOUS
<1> USE DEF IInv
<1>1. PICK m \in {n \in net : n.what = "deal"} : \E data \in m.deal.Data :
        /\ deals' = [deals EXCEPT ![m.deal.Identifier] =
             [state |-> "accepted", piece |-> data.PieceCID,
              client |-> m.deal.Client, held |-> NoBytes, by |-> m.run]]
        /\ net' = net \ {m}
        /\ UNCHANGED <<pc, command, file, clocks, exit>>
  BY DEF AcceptDeal
<1>2. PICK data \in m.deal.Data :
        /\ deals' = [deals EXCEPT ![m.deal.Identifier] =
             [state |-> "accepted", piece |-> data.PieceCID,
              client |-> m.deal.Client, held |-> NoBytes, by |-> m.run]]
        /\ net' = net \ {m}
        /\ UNCHANGED <<pc, command, file, clocks, exit>>
  BY <1>1
<1> DEFINE record == [state |-> "accepted", piece |-> data.PieceCID,
                      client |-> m.deal.Client, held |-> NoBytes, by |-> m.run]
<1>3. m.run \in Runs /\ m.run <= run /\ m.deal.Identifier = m.run
  BY RunsSoFar DEF TypeOK, DealInv, Identifier
<1>4. record \in Records
  BY <1>3 DEF DealInv, Records
<1>5. /\ record.by = m.run /\ record.held = NoBytes
      /\ record.piece = data.PieceCID /\ record # NoRecord
  BY <1>4, RecordsAreSome
<1> HIDE DEF record
<1>6. /\ deals' = [deals EXCEPT ![m.run] = record]
      /\ UNCHANGED <<pc, command, file, clocks, exit>>
  BY <1>2, <1>3 DEF record
<1>7. /\ deals'[m.run] = record
      /\ \A r \in Runs : r # m.run => deals'[r] = deals[r]
      /\ deals[m.run] = NoRecord
  BY <1>3, <1>6 DEF TypeOK, DealInv
<1>8. \A n \in net' : n \in net /\ (n.what = "deal" => n.run # m.run)
  BY <1>2 DEF DealInv
<1>9. TypeOK'
  BY <1>3, <1>4, <1>6, <1>8 DEF TypeOK
<1>10. CallInv'
  BY <1>6 DEF CallInv
<1>11. DealInv'
  <2>1. \A r \in Runs : deals'[r] # NoRecord => r <= run /\ deals'[r].by = r
    BY <1>3, <1>5, <1>7 DEF DealInv
  <2>2. \A n \in net' : n.run \in Runs
    BY <1>8, RunsSoFar DEF TypeOK
  <2>3. \A n \in net' : n.what = "deal" => deals'[n.run] = NoRecord
    BY <1>7, <1>8, <2>2 DEF DealInv
  <2>4. flags.dry => \A r \in Runs : r = run => deals'[r] = NoRecord
    BY <1>7 DEF DealInv
  <2> QED BY <1>6, <1>8, <2>1, <2>3, <2>4 DEF DealInv
<1>12. StageInv'
  <2>1. pc # "exit" => run \in Runs
    BY DEF CallInv
  <2>2. pc = "submitting" => ~Answered("deal")' \/ deals'[run] # NoRecord
    BY <1>1, <1>3, <1>5, <1>6, <1>7, <2>1 DEF StageInv, Answered
  <2>3. pc \in {"open", "sending", "finalizing", "polling"} => m.run # run
    BY DEF StageInv, Answered
  <2>4. pc = "finalizing" =>
          ~Answered("finalize")' \/ deals'[run].held # NoBytes
    BY <1>1, <1>6, <1>7, <2>1, <2>3 DEF StageInv, Answered
  <2> QED BY <1>1, <1>6, <1>7, <1>8, <2>1, <2>2, <2>3, <2>4
          DEF StageInv, Answered
<1>13. KeptInv'
  <2>1. data.PieceCID \in BytesOf(m)
    BY DEF BytesOf
  <2>2. \A r \in 1..run : r \in Runs
    BY RunsSoFar
  <2>3. \A r \in 1..run : since[r] = file.ver /\ deals'[r] # NoRecord =>
          /\ deals'[r].piece = Whole(file)
          /\ deals'[r].held \in {Whole(file), NoBytes}
    BY <1>1, <1>5, <1>7, <2>1, <2>2 DEF KeptInv
  <2> QED BY <1>6, <1>8, <2>3 DEF KeptInv, Whole, BytesOf
<1>14. ReturnsInTime'
  BY <1>6 DEF ReturnsInTime
<1> QED BY <1>9, <1>10, <1>11, <1>12, <1>13, <1>14

LEMMA FinalizeUploadPreserves == IInv /\ FinalizeUpload => IInv'
<1> SUFFICES ASSUME IInv, FinalizeUpload PROVE IInv'
  OBVIOUS
<1> USE DEF IInv
<1>1. PICK m \in net :
        /\ m.what = "finalize" /\ deals[m.run] # NoRecord
        /\ deals' = [deals EXCEPT ![m.run].held = m.body]
        /\ net' = net \ {m}
        /\ UNCHANGED <<pc, command, file, clocks, exit>>
  BY DEF FinalizeUpload, Identifier
<1>2. m.run \in Runs /\ m.body \in Bytes /\ deals[m.run] \in Records
  BY <1>1, RunsSoFar DEF TypeOK
<1> DEFINE record == [deals[m.run] EXCEPT !.held = m.body]
<1>3. record \in Records /\ record.held = m.body
      /\ record.by = deals[m.run].by /\ record.piece = deals[m.run].piece
  BY <1>2 DEF Records
<1>4. record # NoRecord /\ m.body # NoBytes
  BY <1>2, <1>3, RecordsAreSome, BytesAreSome
<1>5. deals' = [deals EXCEPT ![m.run] = record]
  BY <1>1, <1>2 DEF TypeOK
<1> HIDE DEF record
<1>6. /\ deals'[m.run] = record
      /\ \A r \in Runs : r # m.run => deals'[r] = deals[r]
  BY <1>2, <1>5 DEF TypeOK
<1>7. \A r \in Runs : deals'[r] = NoRecord <=> deals[r] = NoRecord
  BY <1>1, <1>4, <1>6
<1>8. TypeOK'
  BY <1>1, <1>2, <1>3, <1>5 DEF TypeOK
<1>9. CallInv'
  BY <1>1 DEF CallInv
<1>10. DealInv'
  <2>1. \A r \in Runs : deals'[r] # NoRecord => r <= run /\ deals'[r].by = r
    BY <1>1, <1>2, <1>3, <1>6, <1>7 DEF DealInv
  <2>2. \A n \in net : n.run \in Runs
    BY RunsSoFar DEF TypeOK
  <2> QED BY <1>1, <1>7, <2>1, <2>2 DEF DealInv
<1>11. StageInv'
  <2>1. pc # "exit" => run \in Runs
    BY DEF CallInv
  <2>2. pc = "submitting" => ~Answered("deal")' \/ deals'[run] # NoRecord
    BY <1>1, <1>7, <2>1 DEF StageInv, Answered
  <2>3. pc = "finalizing" =>
          ~Answered("finalize")' \/ deals'[run].held # NoBytes
    BY <1>1, <1>3, <1>4, <1>6, <2>1 DEF StageInv, Answered
  <2>4. pc = "polling" => deals'[run].held # NoBytes
    BY <1>1, <1>3, <1>4, <1>6, <2>1 DEF StageInv
  <2> QED BY <1>1, <1>7, <2>1, <2>2, <2>3, <2>4 DEF StageInv, Answered
<1>12. KeptInv'
  <2>1. BytesOf(m) = {m.body}
    BY <1>1 DEF BytesOf
  <2>2. \A r \in 1..run : r \in Runs
    BY RunsSoFar
  <2>3. \A r \in 1..run : since[r] = file.ver /\ deals'[r] # NoRecord =>
          /\ deals'[r].piece = Whole(file)
          /\ deals'[r].held \in {Whole(file), NoBytes}
    BY <1>1, <1>3, <1>6, <2>1, <2>2 DEF KeptInv
  <2> QED BY <1>1, <2>3 DEF KeptInv, Whole, BytesOf
<1>13. ReturnsInTime'
  BY <1>1 DEF ReturnsInTime
<1> QED BY <1>8, <1>9, <1>10, <1>11, <1>12, <1>13

LEMMA ProcessDealPreserves == IInv /\ ProcessDeal => IInv'
<1> SUFFICES ASSUME IInv, ProcessDeal PROVE IInv'
  OBVIOUS
<1> USE DEF IInv
<1>1. PICK s \in Runs, state \in {"processing", "active", "failed"} :
        /\ deals[s] # NoRecord
        /\ deals' = [deals EXCEPT ![s].state = state]
        /\ UNCHANGED <<pc, command, file, clocks, exit, net>>
  BY DEF ProcessDeal
<1>2. deals[s] \in Records
  BY <1>1 DEF TypeOK
<1> DEFINE record == [deals[s] EXCEPT !.state = state]
<1>3. record \in Records /\ record.held = deals[s].held
      /\ record.by = deals[s].by /\ record.piece = deals[s].piece
  BY <1>2 DEF Records
<1>4. record # NoRecord
  BY <1>3, RecordsAreSome
<1>5. deals' = [deals EXCEPT ![s] = record]
  BY <1>1, <1>2 DEF TypeOK
<1> HIDE DEF record
<1>6. \A r \in Runs : /\ deals'[r] = NoRecord <=> deals[r] = NoRecord
                      /\ deals[r] # NoRecord =>
                           /\ deals'[r].held = deals[r].held
                           /\ deals'[r].by = deals[r].by
                           /\ deals'[r].piece = deals[r].piece
  BY <1>1, <1>3, <1>4, <1>5 DEF TypeOK
<1>7. TypeOK'
  BY <1>1, <1>3, <1>5 DEF TypeOK
<1>8. CallInv'
  BY <1>1 DEF CallInv
<1>9. DealInv'
  <2>1. \A n \in net : n.run \in Runs
    BY RunsSoFar DEF TypeOK
  <2> QED BY <1>1, <1>6, <2>1 DEF DealInv
<1>10. StageInv'
  <2>1. pc # "exit" => run \in Runs
    BY DEF CallInv
  <2> QED BY <1>1, <1>6, <2>1 DEF StageInv, Answered
<1>11. KeptInv'
  <2>1. \A r \in 1..run : r \in Runs
    BY RunsSoFar
  <2> QED BY <1>1, <1>6, <2>1 DEF KeptInv, Whole, BytesOf
<1>12. ReturnsInTime'
  BY <1>1 DEF ReturnsInTime
<1> QED BY <1>7, <1>8, <1>9, <1>10, <1>11, <1>12

\* Once the file is written it is another than any run so far began with.
LEMMA WriteFilePreserves == IInv /\ WriteFile => IInv'
<1> SUFFICES ASSUME IInv, WriteFile PROVE IInv'
  OBVIOUS
<1> USE DEF IInv, WriteFile
<1>1. TypeOK'
  BY StoreAssumption DEF TypeOK
<1>2. CallInv' /\ ReturnsInTime'
  BY DEF CallInv, ReturnsInTime
<1>3. DealInv' /\ StageInv'
  BY DEF DealInv, StageInv, Answered
<1>4. KeptInv'
  <2>1. file'.ver = file.ver + 1 /\ file.ver \in Nat
    BY StoreAssumption DEF TypeOK
  <2>2. \A r \in 1..run : since[r] \in Nat
    BY RunsSoFar, StoreAssumption DEF TypeOK
  <2> QED BY <2>1, <2>2 DEF KeptInv
<1> QED BY <1>1, <1>2, <1>3, <1>4

LEMMA SignalPreserves == IInv /\ Signal => IInv'
<1> SUFFICES ASSUME IInv, Signal PROVE IInv'
  OBVIOUS
<1> USE DEF IInv, Signal
<1>1. TypeOK'
  BY DEF TypeOK
<1>2. CallInv' /\ ReturnsInTime'
  BY DEF CallInv, ReturnsInTime
<1>3. DealInv' /\ StageInv' /\ KeptInv'
  BY DEF DealInv, StageInv, Answered, KeptInv, BytesOf
<1> QED BY <1>1, <1>2, <1>3

\* Hashing stops the clock by itself, every other call by its context.
LEMMA TickPreserves == IInv /\ Tick => IInv'
<1> SUFFICES ASSUME IInv, Tick PROVE IInv'
  OBVIOUS
<1> USE DEF IInv, Tick
<1>1. age \in Nat /\ age' = age + 1 /\ age <= Latest
  BY DEF TypeOK
<1>2. TypeOK'
  BY <1>1, LatestIsLonger DEF TypeOK
<1>3. CallInv' /\ DealInv' /\ StageInv' /\ KeptInv'
  BY DEF CallInv, DealInv, StageInv, Answered, KeptInv, BytesOf
<1>4. ReturnsInTime'
  <2>1. CASE pc = "hash"
    BY <1>1, <2>1, LatestIsLonger, StoreAssumption DEF ReturnsInTime
  <2>2. CASE pc \in NetworkCalls
    BY <1>1, <2>2, LatestIsLonger, StoreAssumption
    DEF ReturnsInTime, TakesCtx, CtxDone
  <2> QED BY <2>1, <2>2 DEF Calls
<1> QED BY <1>2, <1>3, <1>4

LEMMA NextInv == IInv /\ [Next]_vars => IInv'
<1> SUFFICES ASSUME IInv, [Next]_vars PROVE IInv'
  OBVIOUS
<1>1. CASE OwnStep
  BY <1>1, HashedPreserves, AnswersPreserve, BuildPreserves, SubmitPreserves,
     OpenPreserves, CtxEndsCallPreserves DEF OwnStep
<1>2. CASE AnswerStep
  BY <1>2, AnswersPreserve, SendPreserves DEF AnswerStep
<1>3. CASE SPStep
  BY <1>3, AcceptDealPreserves, FinalizeUploadPreserves, ProcessDealPreserves
  DEF SPStep
<1>4. CASE UNCHANGED vars
  BY <1>4 DEF IInv, TypeOK, CallInv, DealInv, StageInv, Answered, KeptInv,
     BytesOf, ReturnsInTime, vars
<1> QED BY <1>1, <1>2, <1>3, <1>4, RunPreserves, FailurePreserves,
           WriteFilePreserves, SignalPreserves, TickPreserves DEF Next, AllRun

-----------------------------------------------------------------------------
(* What follows.                                                           *)

\* IInv holds in every state, in all of its parts.
THEOREM Invariance == Spec => []IInv
BY InitInv, NextInv, PTL DEF Spec

\* The SP holds the bytes a deal commits to, unless the file was written after
\* the run that made the deal began: store.go reads the file twice.
THEOREM CommitmentIsKept == Spec => []CommitmentKept
<1>1. IInv => CommitmentKept
  <2> SUFFICES ASSUME IInv, NEW r \in Runs, deals[r] # NoRecord,
                      deals[r].held # NoBytes, deals[r].held # deals[r].piece
               PROVE  file.ver > since[deals[r].by]
    BY DEF CommitmentKept
  <2>1. r \in 1..run /\ deals[r].by = r
    BY DEF IInv, TypeOK, DealInv, Runs
  <2>2. since[r] <= file.ver /\ since[r] # file.ver
    BY <2>1 DEF IInv, KeptInv
  <2>3. since[r] \in Int /\ file.ver \in Int
    BY StoreAssumption DEF IInv, TypeOK
  <2> QED BY <2>1, <2>2, <2>3
<1> QED BY <1>1, Invariance, PTL

\* A run is over by its timeout, or by the time the file is hashed, whatever
\* fails or does not answer, and whenever it is interrupted.
THEOREM RunReturnsInTime == Spec => []ReturnsInTime
<1>1. IInv => ReturnsInTime
  BY DEF IInv
<1> QED BY <1>1, Invariance, PTL

\* After the checks of the command itself, no builder returns an error, with
\* any flags.
THEOREM NoBuilderRefuses == Spec => []BuilderNeverRefuses
<1>1. IInv => BuilderNeverRefuses
  BY DealBuilt DEF IInv, TypeOK, CallInv, BuilderNeverRefuses
<1> QED BY <1>1, Invariance, PTL

-----------------------------------------------------------------------------
(* The promise of the exit status.                                         *)

\* What StorePromise calls dry.
Dry == run > 0 /\ flags.dry

\* Whatever leaves the run, its flags and the SP's deals alone changes nothing
\* that StorePromise sees, but perhaps the exit status.
LEMMA FactsStay ==
  ASSUME run' = run, flags' = flags, deals' = deals
  PROVE  Facts' = Facts /\ Dry' = Dry
BY DEF Facts, Dry

LEMMA ExitsWithError ==
  ASSUME run' = run, flags' = flags, deals' = deals,
         exit = "none", exit' = "error"
  PROVE  Abstract!ExitError
BY FactsStay DEF Abstract!ExitError, Dry

LEMMA Stutters ==
  ASSUME run' = run, flags' = flags, deals' = deals, exit' = exit
  PROVE  UNCHANGED Abstract!vars
BY FactsStay DEF Abstract!vars, Dry

\* The deals of other runs do not count.
LEMMA OthersStutter ==
  ASSUME run' = run, flags' = flags, exit' = exit,
         run # 0 => deals'[run] = deals[run]
  PROVE  UNCHANGED Abstract!vars
BY DEF Facts, Identifier, Abstract!vars

LEMMA Happens ==
  ASSUME run' = run, flags' = flags, exit' = exit, ~Dry,
         NEW f \in {"accepted", "stored", "finished"} \ Facts,
         f # "accepted" => "accepted" \in Facts, Facts' = Facts \union {f}
  PROVE  Abstract!Happen
BY DEF Abstract!Happen, Dry

LEMMA RunRefines == IInv /\ Run => Abstract!Run
<1> SUFFICES ASSUME IInv, Run PROVE Abstract!Run
  OBVIOUS
<1>1. run' \in Runs /\ run' = run + 1 /\ run \in Nat
  BY StoreAssumption DEF Run, IInv, TypeOK, Runs
<1>2. deals[run'] = NoRecord /\ deals' = deals
  BY <1>1 DEF Run, IInv, DealInv
<1>3. Facts' = {}
  BY <1>1, <1>2 DEF Facts, FactsOf, Identifier
<1>4. exit # "none" /\ exit' \in {"none", "error"}
  BY DEF Run, Exit, IInv, TypeOK
<1>5. (run > 0 /\ flags.dry)' \in BOOLEAN
  OBVIOUS
<1> QED BY <1>3, <1>4, <1>5 DEF Abstract!Run

LEMMA FailsRefines ==
  ASSUME NEW call, call # "exit" PROVE IInv /\ Fails(call) => Abstract!ExitError
<1> SUFFICES ASSUME IInv, Fails(call) PROVE Abstract!ExitError
  OBVIOUS
<1>1. exit = "none"
  BY DEF Fails, IInv, TypeOK
<1> QED BY <1>1, ExitsWithError DEF Fails, Exit

\* A dry run exits when the deal is built; no other does.
LEMMA BuildRefines == IInv /\ Build => [Abstract!Next]_(Abstract!vars)
<1> SUFFICES ASSUME IInv, Build PROVE [Abstract!Next]_(Abstract!vars)
  OBVIOUS
<1>1. /\ exit = "none" /\ run > 0
      /\ UNCHANGED <<run, flags, deals>>
  BY DEF Build, IInv, TypeOK, CallInv, Runs
<1>2. CASE exit' = "error"
  BY <1>1, <1>2, ExitsWithError DEF Abstract!Next
<1>3. CASE exit' = "ok" /\ flags.dry
  BY <1>1, <1>3, FactsStay DEF Abstract!Next, Abstract!ExitOk, Dry
<1>4. CASE exit' = exit
  BY <1>1, <1>4, Stutters
<1> QED BY <1>2, <1>3, <1>4 DEF Build, Exit, Goto

\* By the time the poll ends well, all has come true.
LEMMA PolledToEndRefines == IInv /\ PolledToEnd => Abstract!ExitOk
<1> SUFFICES ASSUME IInv, PolledToEnd PROVE Abstract!ExitOk
  OBVIOUS
<1>1. /\ run \in Runs /\ deals[run] # NoRecord /\ deals[run].held # NoBytes
      /\ Terminal(deals[run].state) /\ exit = "none"
  BY DEF PolledToEnd, IInv, TypeOK, CallInv, StageInv, Identifier
<1>2. Facts = {"accepted", "stored", "finished"}
  BY <1>1 DEF Facts, FactsOf, Identifier, Runs
<1>3. UNCHANGED <<run, flags, deals>> /\ exit' = "ok"
  BY DEF PolledToEnd, Exit
<1> QED BY <1>1, <1>2, <1>3, FactsStay DEF Abstract!ExitOk, Dry

\* A deal is new when it is accepted.
LEMMA AcceptDealRefines == IInv /\ AcceptDeal => [Abstract!Next]_(Abstract!vars)
<1> SUFFICES ASSUME IInv, AcceptDeal PROVE [Abstract!Next]_(Abstract!vars)
  OBVIOUS
<1>1. UNCHANGED <<run, flags, exit>>
  BY DEF AcceptDeal
<1>2. PICK m \in {n \in net : n.what = "deal"} : \E data \in m.deal.Data :
        deals' = [deals EXCEPT ![m.deal.Identifier] =
             [state |-> "accepted", piece |-> data.PieceCID,
              client |-> m.deal.Client, held |-> NoBytes, by |-> m.run]]
  BY DEF AcceptDeal
<1>3. PICK data \in m.deal.Data :
        deals' = [deals EXCEPT ![m.deal.Identifier] =
             [state |-> "accepted", piece |-> data.PieceCID,
              client |-> m.deal.Client, held |-> NoBytes, by |-> m.run]]
  BY <1>2
<1> DEFINE record == [state |-> "accepted", piece |-> data.PieceCID,
                      client |-> m.deal.Client, held |-> NoBytes, by |-> m.run]
<1>4. /\ deals' = [deals EXCEPT ![m.deal.Identifier] = record]
      /\ record.state = "accepted" /\ record.held = NoBytes
  BY <1>3
<1> HIDE DEF record
<1>5. /\ m.run \in Runs /\ m.deal.Identifier = m.run
      /\ deals[m.run] = NoRecord /\ (flags.dry => m.run # run)
  BY RunsSoFar DEF IInv, TypeOK, DealInv, Identifier
<1>6. CASE m.run = run
  <2>1. record # NoRecord
    <3>1. NoRecord.state = "none"
      BY DEF NoRecord
    <3> QED BY <1>4, <3>1
  <2>2. deals'[run] = record /\ run # 0
    BY <1>5, <1>6, <1>4 DEF IInv, TypeOK, Runs
  <2>3. Facts = {}
    BY <1>5, <1>6 DEF Facts, FactsOf, Identifier
  <2>4. Facts' = {"accepted"}
    BY <1>1, <1>4, <2>1, <2>2 DEF Facts, FactsOf, Identifier, Terminal
  <2> QED BY <1>1, <1>5, <1>6, <2>3, <2>4, Happens DEF Abstract!Next, Dry
<1>7. CASE m.run # run
  <2>1. run # 0 => deals'[run] = deals[run]
    BY <1>2, <1>5, <1>7 DEF IInv, TypeOK, Runs
  <2> QED BY <1>1, <2>1, OthersStutter
<1> QED BY <1>6, <1>7

\* Bytes are stored once, or again.
LEMMA FinalizeUploadRefines ==
  IInv /\ FinalizeUpload => [Abstract!Next]_(Abstract!vars)
<1> SUFFICES ASSUME IInv, FinalizeUpload PROVE [Abstract!Next]_(Abstract!vars)
  OBVIOUS
<1>1. UNCHANGED <<run, flags, exit>>
  BY DEF FinalizeUpload
<1>2. PICK m \in net :
        /\ m.what = "finalize" /\ deals[m.run] # NoRecord
        /\ deals' = [deals EXCEPT ![m.run].held = m.body]
  BY DEF FinalizeUpload, Identifier
<1>3. /\ m.run \in Runs /\ (flags.dry => m.run # run)
      /\ m.body # NoBytes /\ deals[m.run] \in Records
  BY <1>2, RunsSoFar, BytesAreSome DEF IInv, TypeOK, DealInv
<1>4. CASE m.run = run
  <2>1. /\ deals'[run] # NoRecord /\ deals'[run].held = m.body
        /\ deals'[run].state = deals[run].state /\ run # 0
    BY <1>2, <1>3, <1>4, RecordsAreSome
    DEF IInv, TypeOK, Runs, Records, NoRecord
  <2>2. "accepted" \in Facts
    BY <1>2, <1>4, <2>1 DEF Facts, FactsOf, Identifier
  <2>3. Facts' = Facts \union {"stored"}
    BY <1>1, <1>2, <1>3, <1>4, <2>1 DEF Facts, FactsOf, Identifier
  <2>4. CASE "stored" \in Facts
    <3>1. Facts' = Facts
      BY <2>3, <2>4
    <3> QED BY <1>1, <3>1 DEF Abstract!vars
  <2>5. CASE "stored" \notin Facts
    BY <1>1, <1>3, <1>4, <2>2, <2>3, <2>5, Happens DEF Abstract!Next, Dry
  <2> QED BY <2>4, <2>5
<1>5. CASE m.run # run
  <2>1. run # 0 => deals'[run] = deals[run]
    BY <1>2, <1>3, <1>5 DEF IInv, TypeOK, Runs
  <2> QED BY <1>1, <2>1, OthersStutter
<1> QED BY <1>4, <1>5

\* A deal that is not in a terminal state may come to be in one.
LEMMA ProcessDealRefines ==
  IInv /\ ProcessDeal => [Abstract!Next]_(Abstract!vars)
<1> SUFFICES ASSUME IInv, ProcessDeal PROVE [Abstract!Next]_(Abstract!vars)
  OBVIOUS
<1>1. UNCHANGED <<run, flags, exit>>
  BY DEF ProcessDeal
<1>2. PICK s \in Runs, state \in {"processing", "active", "failed"} :
        /\ deals[s] # NoRecord /\ ~Terminal(deals[s].state)
        /\ deals' = [deals EXCEPT ![s].state = state]
  BY DEF ProcessDeal
<1>3. deals[s] \in Records /\ (flags.dry => s # run)
  BY <1>2 DEF IInv, TypeOK, DealInv
<1>4. CASE s = run
  <2>1. /\ deals'[run] # NoRecord /\ deals'[run].held = deals[run].held
        /\ deals'[run].state = state /\ run # 0
    BY <1>2, <1>3, <1>4, RecordsAreSome
    DEF IInv, TypeOK, Runs, Records, NoRecord
  <2>2. "accepted" \in Facts /\ "finished" \notin Facts
    BY <1>2, <1>4, <2>1 DEF Facts, FactsOf, Identifier
  <2>3. Facts' = Facts \union (IF Terminal(state) THEN {"finished"} ELSE {})
    BY <1>1, <1>2, <1>4, <2>1 DEF Facts, FactsOf, Identifier
  <2>4. CASE ~Terminal(state)
    <3>1. Facts' = Facts
      BY <2>3, <2>4
    <3> QED BY <1>1, <3>1 DEF Abstract!vars
  <2>5. CASE Terminal(state)
    BY <1>1, <1>3, <1>4, <2>2, <2>3, <2>5, Happens DEF Abstract!Next, Dry
  <2> QED BY <2>4, <2>5
<1>5. CASE s # run
  <2>1. run # 0 => deals'[run] = deals[run]
    BY <1>2, <1>5 DEF IInv, TypeOK
  <2> QED BY <1>1, <2>1, OthersStutter
<1> QED BY <1>4, <1>5

LEMMA StepRefines == IInv /\ [Next]_vars => [Abstract!Next]_(Abstract!vars)
<1> SUFFICES ASSUME IInv, [Next]_vars PROVE [Abstract!Next]_(Abstract!vars)
  OBVIOUS
<1>1. CASE Hashed
  <2>1. CASE exit' = "error"
    BY <1>1, <2>1, ExitsWithError DEF Hashed, IInv, TypeOK, Abstract!Next
  <2>2. CASE exit' = exit
    BY <1>1, <2>2, Stutters DEF Hashed
  <2> QED BY <1>1, <2>1, <2>2 DEF Hashed, Exit, Goto
<1>2. CASE Probed \/ Submit
  <2>1. UNCHANGED <<run, flags, deals>> /\ exit = "none"
    BY <1>2 DEF Probed, Submit, IInv, TypeOK
  <2>2. exit' = "error" \/ exit' = exit
    BY <1>2 DEF Probed, Submit, Exit, Goto
  <2> QED BY <2>1, <2>2, ExitsWithError, Stutters DEF Abstract!Next
<1>3. CASE Failure \/ CtxEndsCall
  <2>1. PICK call \in Calls \union {"signer", "open"} : Fails(call)
    BY <1>3 DEF Failure, CtxEndsCall, HashFails, SignerFails, ProbeFails,
       SubmitFails, OpenFails, SendFails, FinalizeFails, PollFails,
       Calls, NetworkCalls
  <2>2. call # "exit"
    BY DEF Calls, NetworkCalls
  <2> QED BY <2>1, <2>2, FailsRefines DEF Abstract!Next
<1>4. CASE Signed \/ Submitted \/ Open \/ Send \/ Uploaded \/ WriteFile
           \/ Signal \/ Tick \/ UNCHANGED vars
  <2>1. UNCHANGED <<run, flags, deals, exit>>
    BY <1>4 DEF Signed, Submitted, Open, Send, Uploaded, WriteFile, Signal,
       Tick, Goto, vars
  <2> QED BY <2>1, Stutters
<1>5. CASE Run
  BY <1>5, RunRefines DEF Abstract!Next
<1>6. CASE Build
  BY <1>6, BuildRefines
<1>7. CASE PolledToEnd
  BY <1>7, PolledToEndRefines DEF Abstract!Next
<1>8. CASE SPStep
  BY <1>8, AcceptDealRefines, FinalizeUploadRefines, ProcessDealRefines
  DEF SPStep
<1> QED
  BY <1>1, <1>2, <1>3, <1>4, <1>5, <1>6, <1>7, <1>8
  DEF Next, OwnStep, AnswerStep, AllRun

\* The exit status of `filcrate store` keeps StorePromise: 0 only when the SP
\* accepted the deal of this run, holds bytes for it and ended its processing,
\* or the run was a dry one.
THEOREM KeepsPromise == Spec => Promise
<1>1. Init => Abstract!Init
  BY DEF Init, Facts, Abstract!Init
<1>2. IInv /\ [Next]_vars => [Abstract!Next]_(Abstract!vars)
  BY StepRefines
<1> QED BY <1>1, <1>2, Invariance, PTL DEF Spec, Promise, Abstract!Spec
=============================================================================

----------------------------- MODULE MCHlNodeSource ----------------------------
(***************************************************************************)
(* Instances of HlNodeSource for TLC.                                      *)
(***************************************************************************)
EXTENDS HlNodeSource

Ext == INSTANCE SequencesExt

OneBlock == <<1>>

\* Either somebody asks for blocks, and the last hour never comes, or the hours all
\* pass and nobody asks: an hour without blocks needs three of them.
VARIABLE asking

mcVars == <<vars, asking>>

Within(step) == step /\ UNCHANGED asking /\ (asking => Hour(now') < MaxHour)
Asking(step) == asking /\ step /\ UNCHANGED asking

MCInit == Init /\ asking \in BOOLEAN

MCNext ==
  \/ Within(Tick) \/ Within(CreateFile)
  \/ \E h \in Hours : Within(WriteBlock(h)) \/ Within(WriteGarbled(h))
  \/ Within(Backfill) \/ Within(FindFile) \/ Within(Scan) \/ Within(Sleep)
  \/ Within(FinallyScan) \/ Within(SwitchFile)
  \/ \E r \in Requesters :
       \/ Asking(AskLatest(r)) \/ \E n \in AskedFor : Asking(Ask(r, n))
       \/ Asking(LookLocally(r)) \/ Asking(Missed(r)) \/ Asking(FallBack(r))
       \/ Asking(Return(r))

\* The runtime runs the ingest task, and time passes; whoever needs a block asks for
\* it until it comes.
MCSpec ==
  /\ MCInit /\ [][MCNext]_mcVars
  /\ WF_mcVars(Within(Ingest)) /\ WF_mcVars(Within(Tick))
  /\ \A r \in Requesters : WF_mcVars(Asking(Step(r)))
  /\ \A n \in FallbackHas : SF_mcVars(\E r \in Requesters : Asking(Ask(r, n)))

\* Loading blocks at once leaves what inserting them one by one does.
ASSUME LoadsAsInserts ==
  \A lru \in {s \in Ext!BoundedSeq(Heights, CacheSize) : IsInjective(s)},
     bs \in {s \in Ext!BoundedSeq(Heights, MaxHeight) : IsInjective(s)} :
    load_blocks[lru][bs] = Ext!FoldLeft(LAMBDA l, b : LruInsert(l, CacheSize, b), lru, bs)
================================================================================

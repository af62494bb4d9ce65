----------------------------- MODULE MCRetrieval -----------------------------
(***************************************************************************)
(* Small instances, for TLC, of the parts of the retrieval of norms: how   *)
(* texts are cut, how references are found, how norms are gathered.  As in *)
(* MCServices, a behaviour is one of one part, `part'.                     *)
(***************************************************************************)
EXTENDS Chunker, EmbedSplit, References, Retrieval, TLC

CONSTANTS k1, k2, law, gk, kf, gkrf, None, Empty,
          p1, p2, p3, p4, p5, s1, s2, s3, s4, ca, cb, cc, cd, cx, cy, cz, ra, rb, rx,
          qa, qb, qc

VARIABLE part

-----------------------------------------------------------------------------
(* Articles of up to four paragraphs, one directory for each, and two with  *)
(* several files.                                                           *)

EndsOf(l) == [i \in 0 .. Len(l) |->
                (IF i >= 1 THEN l[1] ELSE 0) + (IF i >= 2 THEN l[2] ELSE 0)
              + (IF i >= 3 THEN l[3] ELSE 0) + (IF i >= 4 THEN l[4] ELSE 0)
              + (IF i >= 5 THEN l[5] ELSE 0)]
TextOf(l, slack) == [size |-> Len(l), slack |-> slack, ends |-> EndsOf(l)]
TextsOf(lengths, n) ==
  {TextOf(l, k) : l \in UNION {[1 .. m -> lengths] : m \in 0 .. n}, k \in {0, 1}}

MCArticles == TextsOf({1, 3, 9}, 4)
Short3 == TextOf(<<3, 3, 3>>, 0)
Long1 == TextOf(<<9>>, 0)
Folder(g, sp, pr, sec, has) ==
  [general |-> g, specific |-> sp, primal |-> pr, secondary |-> sec, hasPrimal |-> has]
MCRoots ==
  {Folder(<< <<a>> >>, << >>, << >>, << >>, TRUE) : a \in MCArticles}
  \cup {Folder(<< <<a, Short3>>, << >>, <<Short3>> >>, << >>, << >>, << >>, TRUE) :
          a \in TextsOf({1, 9}, 2)}
  \cup {Folder(<< <<Short3>> >>, << <<Long1>> >>, << <<Short3>> >>, << <<Long1>> >>, h) :
          h \in BOOLEAN}

MCTexts == TextsOf({1, 3, 7, 9, 20}, 4) \cup {TextOf(<<4, 4, 4, 4, l>>, 0) : l \in {1, 4, 9}}

-----------------------------------------------------------------------------
(* Two parts of a code, a law and the civil code.                           *)

Info(s, n, f, sec) ==
  [source |-> s, name |-> n, aliases |-> {n}, family |-> <<f>>, secondary |-> sec]
MCInfos == {Info(k1, k1, kf, FALSE), Info(k2, k2, kf, TRUE), Info(law, law, law, TRUE),
            Info(gk, gkrf, gkrf, TRUE)}
InfoOf(s) == CHOOSE i \in MCInfos : i.source = s
MCTables == {<< >>, <<InfoOf(k2), InfoOf(k1)>>,
             <<InfoOf(law), InfoOf(k1)>>, <<InfoOf(gk), InfoOf(law)>>}
MCNameOf == k1 :> k1 @@ gk :> gkrf

Window(m, ns, as) ==
  [marker |-> m, numbers |-> ns, first |-> CHOOSE n \in ns : TRUE, aliases |-> as]
Mention(a, n) == [alias |-> a, article |-> n]
MCPassages ==
  {[near |-> {1}, points |-> {}, marker |-> TRUE, numbers |-> {1}, mentions |-> {},
    windows |-> {Window(TRUE, {1}, {})}],
   [near |-> {}, points |-> {2}, marker |-> FALSE, numbers |-> {1, 2},
    mentions |-> {Mention(law, 1), Mention(kf, 2), Mention(gkrf, None)},
    windows |-> {Window(FALSE, {2}, {kf}), Window(FALSE, {1}, {law, gkrf})}]}

-----------------------------------------------------------------------------
(* A chunk that two points hold, one without an id, and a chain of          *)
(* references.                                                              *)

MCChunkOf == p1 :> ca @@ p2 :> cb @@ p3 :> cb @@ p4 :> cc @@ p5 :> cd
             @@ s1 :> cx @@ s2 :> cy @@ s3 :> cz @@ s4 :> cx
MCCites == ca :> {ra} @@ cb :> {rb} @@ cc :> {} @@ cd :> {} @@ cx :> {rx} @@ cy :> {} @@ cz :> {ra}
MCMatches == ra :> {s1} @@ rb :> {s2, s3} @@ rx :> {s2}
MCCapOf == ra :> 1 @@ rb :> 1 @@ rx :> 1

-----------------------------------------------------------------------------

\* A part that is not the one at work stands at one place.
RetrieverInit ==
  /\ part \in {"chunker", "embed", "references", "retrieval"}
  /\ ChunkerInit
  /\ part # "chunker" =>
       /\ task = "export"
       /\ root = Folder(<< << TextOf(<< >>, 0) >> >>, << >>, << >>, << >>, TRUE)
  /\ EmbedSplitInit
  /\ part # "embed" => text = TextOf(<< >>, 0)
  /\ ReferencesInit
  /\ part # "references" => table = << >>
  /\ RetrievalInit
  /\ part # "retrieval" => query = qa

RetrieverNext ==
  \/ /\ part = "chunker" /\ ChunkerNext
     /\ UNCHANGED <<part, embedVars, referenceVars, retrievalVars>>
  \/ /\ part = "embed" /\ EmbedSplitNext
     /\ UNCHANGED <<part, chunkVars, referenceVars, retrievalVars>>
  \/ /\ part = "references" /\ ReferencesNext
     /\ UNCHANGED <<part, chunkVars, embedVars, retrievalVars>>
  \/ /\ part = "retrieval" /\ RetrievalNext
     /\ UNCHANGED <<part, chunkVars, embedVars, referenceVars>>

RetrieverSpec ==
  RetrieverInit /\ [][RetrieverNext]_<<part, chunkVars, embedVars, referenceVars, retrievalVars>>
=============================================================================

---------------------------- MODULE LibraryProofs ----------------------------
(***************************************************************************)
(* The properties of module Library hold of every run: for any finite      *)
(* number of publications of any sizes, any ceiling, any projects, and any *)
(* number of commands side by side.                                        *)
(***************************************************************************)
EXTENDS Library, FiniteSetTheorems, TLAPS

-----------------------------------------------------------------------------
(* The bytes of folders.                                                   *)

\* A set of folders that are each of some publication.
OfPublications(F) == IsFiniteSet(F) /\ \A f \in F : f[2] \in Publication

\* What finitely many folders weigh is a number, and one folder weighs its size.
LEMMA OneFolder ==
  ASSUME NEW f, f[2] \in Publication
  PROVE  /\ IsFiniteSet({f} \X (1 .. Size[f[2]]))
         /\ Cardinality({f} \X (1 .. Size[f[2]])) = Size[f[2]]
         /\ Size[f[2]] \in Nat
<1>1. Size[f[2]] \in Nat
  BY LibraryAssumption
<1>2. IsFiniteSet({f}) /\ Cardinality({f}) = 1
  BY FS_Singleton
<1>3. IsFiniteSet(1 .. Size[f[2]]) /\ Cardinality(1 .. Size[f[2]]) = Size[f[2]]
  BY <1>1, FS_Interval
<1>4. /\ IsFiniteSet({f} \X (1 .. Size[f[2]]))
      /\ Cardinality({f} \X (1 .. Size[f[2]])) = Cardinality({f}) * Cardinality(1 .. Size[f[2]])
  BY <1>2, <1>3, FS_Product
<1> QED BY <1>1, <1>2, <1>3, <1>4

LEMMA BytesFinite ==
  ASSUME NEW F, OfPublications(F)
  PROVE  IsFiniteSet(Bytes(F)) /\ Cardinality(Bytes(F)) \in Nat
<1> DEFINE b == [f \in F |-> {f} \X (1 .. Size[f[2]])]
           B == {{f} \X (1 .. Size[f[2]]) : f \in F}
<1>1. b \in Surjection(F, B)
  <2>1. b \in [F -> B]
    OBVIOUS
  <2>2. \A t \in B : \E f \in F : b[f] = t
    OBVIOUS
  <2> QED BY <2>1, <2>2, Zenon DEF Surjection
<1>2. IsFiniteSet(B)
  BY <1>1, FS_Surjection DEF OfPublications
<1>3. ASSUME NEW t \in B PROVE IsFiniteSet(t)
  <2>1. PICK f \in F : t = {f} \X (1 .. Size[f[2]])
    OBVIOUS
  <2> QED BY <2>1, OneFolder DEF OfPublications
<1>4. IsFiniteSet(UNION B)
  BY <1>2, <1>3, FS_UNION
<1> QED BY <1>4, FS_CardinalityType DEF Bytes

\* Fewer folders weigh no more.
LEMMA FewerFolders ==
  ASSUME NEW F, OfPublications(F), NEW G \in SUBSET F
  PROVE  /\ OfPublications(G)
         /\ Cardinality(Bytes(G)) \in Nat
         /\ Cardinality(Bytes(G)) <= Cardinality(Bytes(F))
<1>1. OfPublications(G)
  BY FS_Subset DEF OfPublications
<1>2. IsFiniteSet(Bytes(F)) /\ Bytes(G) \subseteq Bytes(F)
  BY BytesFinite DEF Bytes
<1>3. Cardinality(Bytes(G)) <= Cardinality(Bytes(F))
  BY <1>2, FS_Subset
<1> QED BY <1>1, <1>3, BytesFinite

\* A folder more weighs its size more.
LEMMA FolderMore ==
  ASSUME NEW F, OfPublications(F), NEW f, f \notin F, f[2] \in Publication
  PROVE  /\ OfPublications(F \cup {f})
         /\ Cardinality(Bytes(F \cup {f})) = Cardinality(Bytes(F)) + Size[f[2]]
<1> DEFINE one == {f} \X (1 .. Size[f[2]])
<1>1. OfPublications(F \cup {f})
  BY FS_AddElement DEF OfPublications
<1>2. Bytes(F \cup {f}) = Bytes(F) \cup one
  BY DEF Bytes
<1>3. Bytes(F) \cap one = {}
  BY DEF Bytes
<1>4. IsFiniteSet(one) /\ Cardinality(one) = Size[f[2]] /\ Size[f[2]] \in Nat
  BY OneFolder
<1>5. IsFiniteSet(Bytes(F)) /\ Cardinality(Bytes(F)) \in Nat
  BY BytesFinite
<1>6. Cardinality(Bytes(F) \cap one) = 0
  BY <1>3, FS_EmptySet
<1> HIDE DEF one
<1>7. Cardinality(Bytes(F) \cup one)
        = Cardinality(Bytes(F)) + Cardinality(one) - Cardinality(Bytes(F) \cap one)
  BY <1>4, <1>5, FS_Union
<1>8. Cardinality(Bytes(F) \cup one) = Cardinality(Bytes(F)) + Size[f[2]]
  BY <1>4, <1>5, <1>6, <1>7
<1> QED BY <1>1, <1>2, <1>8

\* A folder that changes its place, or takes the place of another of its publication,
\* makes nothing heavier.
LEMMA FolderMoves ==
  ASSUME NEW F, OfPublications(F), NEW f \in F, NEW g, g[2] = f[2],
         NEW G \in SUBSET ((F \ {f}) \cup {g})
  PROVE  Cardinality(Bytes(G)) \in Nat /\ Cardinality(Bytes(G)) <= Cardinality(Bytes(F))
<1> DEFINE R == F \ {f}
<1>1. /\ OfPublications(R) /\ Cardinality(Bytes(R)) \in Nat
      /\ Cardinality(Bytes(R)) <= Cardinality(Bytes(F))
  BY FewerFolders
<1>2. f[2] \in Publication /\ f \notin R /\ F = R \cup {f}
  BY DEF OfPublications
<1> HIDE DEF R
<1>3. Cardinality(Bytes(F)) = Cardinality(Bytes(R)) + Size[f[2]]
  BY <1>1, <1>2, FolderMore
<1>4. OfPublications(R \cup {g}) /\ Cardinality(Bytes(R \cup {g})) <= Cardinality(Bytes(F))
  <2>1. CASE g \in R
    <3>1. R \cup {g} = R
      BY <2>1
    <3> QED BY <1>1, <3>1
  <2>2. CASE g \notin R
    <3>1. /\ OfPublications(R \cup {g})
          /\ Cardinality(Bytes(R \cup {g})) = Cardinality(Bytes(R)) + Size[g[2]]
      BY <1>1, <1>2, <2>2, FolderMore
    <3> QED BY <1>1, <1>2, <1>3, <3>1, BytesFinite
  <2> QED BY <2>1, <2>2
<1>5. G \in SUBSET (R \cup {g})
  BY DEF R
<1>6. Cardinality(Bytes(G)) \in Nat /\ Cardinality(Bytes(G)) <= Cardinality(Bytes(R \cup {g}))
  BY <1>4, <1>5, FewerFolders
<1>7. Cardinality(Bytes(R \cup {g})) \in Nat /\ Cardinality(Bytes(F)) \in Nat
  BY <1>4, BytesFinite
<1> QED BY <1>4, <1>6, <1>7

-----------------------------------------------------------------------------
(* What lies in imports/.                                                  *)

\* The folders of one kind are finitely many.
LEMMA TripleFinite ==
  ASSUME NEW k, NEW S, IsFiniteSet(S)
  PROVE  IsFiniteSet({k} \X S \X {1})
<1> DEFINE g == [s \in S |-> <<k, s, 1>>]
<1>1. g \in Surjection(S, {k} \X S \X {1})
  <2>1. g \in [S -> {k} \X S \X {1}]
    OBVIOUS
  <2>2. \A t \in {k} \X S \X {1} : \E s \in S : g[s] = t
    OBVIOUS
  <2> QED BY <2>1, <2>2, Zenon DEF Surjection
<1> QED BY <1>1, FS_Surjection

LEMMA LeftFinite ==
  ASSUME TypeOK
  PROVE  OfPublications(Left)
<1> DEFINE L(p) == {"left"} \X {p} \X (1 .. young[p] + old[p])
           T == {L(p) : p \in Publication}
           b == [p \in Publication |-> L(p)]
<1>1. b \in Surjection(Publication, T)
  <2>1. b \in [Publication -> T]
    OBVIOUS
  <2>2. \A t \in T : \E p \in Publication : b[p] = t
    OBVIOUS
  <2> QED BY <2>1, <2>2, Zenon DEF Surjection
<1>2. IsFiniteSet(T)
  BY <1>1, FS_Surjection, LibraryAssumption
<1>3. ASSUME NEW t \in T PROVE IsFiniteSet(t)
  <2>1. PICK p \in Publication : t = L(p)
    OBVIOUS
  <2>2. young[p] + old[p] \in Nat
    BY DEF TypeOK
  <2> DEFINE I == 1 .. young[p] + old[p]
             g == [k \in I |-> <<"left", p, k>>]
  <2>3. IsFiniteSet(I)
    BY <2>2, FS_Interval
  <2>4. g \in Surjection(I, L(p))
    <3>1. g \in [I -> L(p)]
      OBVIOUS
    <3>2. \A u \in L(p) : \E k \in I : g[k] = u
      OBVIOUS
    <3> QED BY <3>1, <3>2, Zenon DEF Surjection
  <2> QED BY <2>1, <2>3, <2>4, FS_Surjection
<1>4. IsFiniteSet(UNION T)
  BY <1>2, <1>3, FS_UNION
<1>5. UNION T = Left
  BY DEF Left
<1>6. \A f \in Left : f[2] \in Publication
  BY DEF Left
<1> QED BY <1>4, <1>5, <1>6 DEF OfPublications

LEMMA FoldersFinite ==
  ASSUME TypeOK
  PROVE  /\ OfPublications(Folders)
         /\ measure_imports \in Nat
<1>1. copies \subseteq Publication /\ Staged \subseteq Publication
  <2>1. ASSUME NEW d \in Call, Runs(d, "import", "staged") PROVE calls[d].of \in Publication
    BY <2>1 DEF TypeOK, Ops, Runs
  <2> QED BY <2>1 DEF TypeOK, Staged
<1>2. IsFiniteSet(copies) /\ IsFiniteSet(Staged)
  BY <1>1, FS_Subset, LibraryAssumption
<1>3. /\ IsFiniteSet({"copy"} \X copies \X {1})
      /\ IsFiniteSet({"staged"} \X Staged \X {1})
      /\ OfPublications(Left)
  BY <1>2, TripleFinite, LeftFinite
<1>4. IsFiniteSet(Folders)
  BY <1>3, FS_Union DEF Folders, OfPublications
<1>5. \A f \in Folders : f[2] \in Publication
  BY <1>1, <1>3 DEF Folders, OfPublications
<1> QED BY <1>4, <1>5, BytesFinite DEF OfPublications, measure_imports

\* How a step changes what imports/ weighs.
LEMMA WeighsNoMore ==
  ASSUME TypeOK, Folders' \subseteq Folders
  PROVE  measure_imports' \in Nat /\ measure_imports' <= measure_imports
BY FoldersFinite, FewerFolders DEF measure_imports

LEMMA WeighsTheSame ==
  ASSUME TypeOK, NEW f \in Folders, NEW g, g[2] = f[2], Folders' \subseteq (Folders \ {f}) \cup {g}
  PROVE  measure_imports' \in Nat /\ measure_imports' <= measure_imports
BY FoldersFinite, FolderMoves DEF measure_imports

LEMMA WeighsOneMore ==
  ASSUME TypeOK, NEW f, f[2] \in Publication, Folders' \subseteq Folders \cup {f}
  PROVE  measure_imports' \in Nat /\ measure_imports' <= measure_imports + Size[f[2]]
<1>1. OfPublications(Folders) /\ measure_imports \in Nat /\ Size[f[2]] \in Nat
  BY FoldersFinite, LibraryAssumption
<1>2. CASE f \in Folders
  <2>1. Folders' \subseteq Folders
    BY <1>2
  <2>2. measure_imports' \in Nat /\ measure_imports' <= measure_imports
    BY <2>1, WeighsNoMore
  <2> QED BY <1>1, <2>2
<1>3. CASE f \notin Folders
  <2>1. /\ OfPublications(Folders \cup {f})
        /\ Cardinality(Bytes(Folders \cup {f})) = measure_imports + Size[f[2]]
    BY <1>1, <1>3, FolderMore DEF measure_imports
  <2> QED BY <2>1, FewerFolders DEF measure_imports
<1> QED BY <1>2, <1>3

-----------------------------------------------------------------------------
(* The commands.                                                           *)

\* What a command carries, by what it is.
LEMMA CommandFields ==
  ASSUME TypeOK, NEW c \in Call
  PROVE  /\ calls[c].op \in {"none", "import", "remove", "remember", "list"}
         /\ calls[c].op = "none" <=> calls[c] = Idle
         /\ calls[c].op = "import" =>
              /\ calls[c].of \in Publication /\ calls[c].late \in BOOLEAN /\ calls[c].used \in Nat
              /\ calls[c].at \in {"asked", "flagged", "measured", "staged", "landed", "done", "failed"}
         /\ calls[c].op = "remove" =>
              /\ calls[c].of \in Publication \cup Project /\ calls[c].copy \in BOOLEAN
              /\ calls[c].at \in {"asked", "found", "forgotten", "done", "failed"}
         /\ calls[c].op = "remember" => calls[c].of \in Project
<1>1. calls[c] \in Ops
  BY DEF TypeOK
<1> QED BY <1>1 DEF Ops, Idle

\* A slot that is given another command.
LEMMA Replacing ==
  ASSUME TypeOK, NEW c \in Call, NEW call \in Ops, calls' = [calls EXCEPT ![c] = call]
  PROVE  /\ calls' \in [Call -> Ops]
         /\ calls'[c] = call
         /\ \A d \in Call : d # c => calls'[d] = calls[d]
BY DEF TypeOK

\* An import that comes a stage further, and is told something on the way.
LEMMA ImportMoves ==
  ASSUME TypeOK, NEW c \in Call, calls[c].op = "import",
         NEW at \in {"asked", "flagged", "measured", "staged", "landed", "done", "failed"},
         NEW late \in BOOLEAN, NEW used \in Nat,
         \/ calls' = [calls EXCEPT ![c].at = at, ![c].late = late] /\ used = calls[c].used
         \/ calls' = [calls EXCEPT ![c].at = at, ![c].used = used] /\ late = calls[c].late
  PROVE  /\ calls' \in [Call -> Ops]
         /\ calls'[c].op = "import" /\ calls'[c].of = calls[c].of
         /\ calls'[c].at = at /\ calls'[c].late = late /\ calls'[c].used = used
         /\ \A d \in Call : d # c => calls'[d] = calls[d]
<1> DEFINE I == [op : {"import"}, of : Publication, late : BOOLEAN, used : Nat,
                 at : {"asked", "flagged", "measured", "staged", "landed", "done", "failed"}]
<1>1. calls[c] \in I
  BY DEF TypeOK, Ops
<1>2. ASSUME NEW moved, moved \in I, calls' = [calls EXCEPT ![c] = moved],
             moved.of = calls[c].of, moved.at = at, moved.late = late, moved.used = used
      PROVE  /\ calls' \in [Call -> Ops]
             /\ calls'[c].op = "import" /\ calls'[c].of = calls[c].of
             /\ calls'[c].at = at /\ calls'[c].late = late /\ calls'[c].used = used
             /\ \A d \in Call : d # c => calls'[d] = calls[d]
  <2>1. moved \in Ops /\ moved.op = "import"
    BY <1>2 DEF Ops
  <2>2. calls'[c] = moved
    BY <1>2 DEF TypeOK
  <2> QED BY <1>2, <2>1, <2>2, Replacing
<1>3. CASE calls' = [calls EXCEPT ![c].at = at, ![c].late = late] /\ used = calls[c].used
  <2> DEFINE m == [calls[c] EXCEPT !.at = at, !.late = late]
  <2>1. m \in I /\ m.of = calls[c].of /\ m.at = at /\ m.late = late /\ m.used = used
    BY <1>1, <1>3
  <2>2. calls' = [calls EXCEPT ![c] = m]
    BY <1>3
  <2> QED BY <1>2, <2>1, <2>2
<1>4. CASE calls' = [calls EXCEPT ![c].at = at, ![c].used = used] /\ late = calls[c].late
  <2> DEFINE m == [calls[c] EXCEPT !.at = at, !.used = used]
  <2>1. m \in I /\ m.of = calls[c].of /\ m.at = at /\ m.late = late /\ m.used = used
    BY <1>1, <1>4
  <2>2. calls' = [calls EXCEPT ![c] = m]
    BY <1>4
  <2> QED BY <1>2, <2>1, <2>2
<1> QED BY <1>3, <1>4

LEMMA ImportBecomes ==
  ASSUME TypeOK, NEW c \in Call, calls[c].op = "import",
         NEW at \in {"flagged", "staged", "landed", "done", "failed"}, Become(c, at)
  PROVE  /\ calls' \in [Call -> Ops]
         /\ calls'[c].op = "import" /\ calls'[c].of = calls[c].of /\ calls'[c].at = at
         /\ calls'[c].late = calls[c].late
         /\ \A d \in Call : d # c => calls'[d] = calls[d]
<1> DEFINE I == [op : {"import"}, of : Publication, late : BOOLEAN, used : Nat,
                 at : {"asked", "flagged", "measured", "staged", "landed", "done", "failed"}]
           m == [calls[c] EXCEPT !.at = at]
<1>1. calls[c] \in I
  BY DEF TypeOK, Ops
<1>2. m \in I /\ m.of = calls[c].of /\ m.at = at /\ m.late = calls[c].late
  BY <1>1
<1>3. calls' = [calls EXCEPT ![c] = m]
  BY DEF Become
<1>4. m \in Ops /\ m.op = "import"
  BY <1>2 DEF Ops
<1> HIDE DEF m
<1>5. calls'[c] = m
  BY <1>3 DEF TypeOK
<1> QED BY <1>2, <1>3, <1>4, <1>5, Replacing

\* A removal that comes a stage further.
LEMMA RemovalMoves ==
  ASSUME TypeOK, NEW c \in Call, calls[c].op = "remove",
         NEW at \in {"asked", "found", "forgotten", "done", "failed"}, Become(c, at)
  PROVE  /\ calls' \in [Call -> Ops]
         /\ calls'[c].op = "remove" /\ calls'[c].of = calls[c].of /\ calls'[c].copy = calls[c].copy
         /\ calls'[c].at = at
         /\ \A d \in Call : d # c => calls'[d] = calls[d]
<1> DEFINE R == [op : {"remove"}, of : Publication \cup Project, copy : BOOLEAN,
                 at : {"asked", "found", "forgotten", "done", "failed"}]
           m == [calls[c] EXCEPT !.at = at]
<1>1. calls[c] \in R
  BY DEF TypeOK, Ops
<1>2. m \in R /\ m.of = calls[c].of /\ m.copy = calls[c].copy /\ m.at = at
  BY <1>1
<1>3. calls' = [calls EXCEPT ![c] = m]
  BY DEF Become
<1>4. m \in Ops /\ m.op = "remove"
  BY <1>2 DEF Ops
<1> HIDE DEF m
<1>5. calls'[c] = m
  BY <1>3 DEF TypeOK
<1> QED BY <1>2, <1>3, <1>4, <1>5, Replacing

\* A project that is remembered and a listing that is made.
LEMMA OtherMoves ==
  ASSUME TypeOK, NEW c \in Call, calls[c].op \in {"remember", "list"}, Become(c, "done")
  PROVE  /\ calls' \in [Call -> Ops]
         /\ calls'[c].op = calls[c].op
         /\ \A d \in Call : d # c => calls'[d] = calls[d]
<1> DEFINE O == [op : {"remember"}, of : Project, at : {"asked", "done"}]
                  \cup [op : {"list"}, after : {"import", "remove"}, at : {"asked", "done"}]
           m == [calls[c] EXCEPT !.at = "done"]
<1>1. calls[c] \in O
  BY DEF TypeOK, Ops
<1>2. m \in O /\ m.op = calls[c].op
  BY <1>1
<1>3. calls' = [calls EXCEPT ![c] = m]
  BY DEF Become
<1>4. m \in Ops
  BY <1>2 DEF Ops
<1> HIDE DEF m
<1>5. calls'[c] = m
  BY <1>3 DEF TypeOK
<1> QED BY <1>2, <1>3, <1>4, <1>5, Replacing

-----------------------------------------------------------------------------
(***************************************************************************)
(* The invariant.                                                          *)
(***************************************************************************)

\* An import between measuring and its end, and it alone, holds the index lock.
Holds(c) == calls[c].op = "import" /\ calls[c].at \in {"measured", "staged", "landed"}
LockIsHeld == \A c \in Call : lock = c <=> Holds(c)

\* What runs has the disk's index in memory; what is down has nothing.
MemoryIsTheIndex ==
  IF window = "down"
  THEN memory = {} /\ lock = None /\ ~importing /\ closer = "none" /\ \A c \in Call : calls[c] = Idle
  ELSE memory = index

\* An import that has measured goes on from no less than there is.
RoomWasMeasured ==
  /\ WithinCeiling
  /\ \A c \in Call : Runs(c, "import", "measured") => measure_imports <= calls[c].used

\* Only an imported publication has a copy that may be asked to go, and an entry is
\* forgotten without being done with only if its copy was.
CopiesAreImports ==
  \A c \in Call : calls[c].op = "remove" =>
                    /\ calls[c].copy => calls[c].of \in Publication
                    /\ calls[c].at = "forgotten" => calls[c].copy

\* A removal that has found its entry has its copy to delete, or has met another
\* removal of the same publication; an import is at it beside a removal of its
\* publication only if two removals met, for it began when one had deleted the copy;
\* what is imported is not listed yet, and what a removal has forgotten is not listed
\* any more, unless two removals met.
RemovalHasCopy == \A c \in Call : \A p \in Publication : Removes(c, p) => p \in copies \cup twice
RemovalsMeet ==
  \A c, d \in Call : \A p \in Publication : c # d /\ Removes(c, p) /\ Removes(d, p) => p \in twice
ImportMeets ==
  \A c, d \in Call : /\ calls[c].op = "import" /\ calls[c].at \in {"staged", "landed"}
                    /\ Removes(d, calls[c].of)
                    => calls[c].of \in twice
ImportIsUnlisted ==
  \A c \in Call : calls[c].op = "import" /\ calls[c].at \in {"staged", "landed"} =>
                    calls[c].of \notin index \/ calls[c].of \in twice
ForgottenIsUnlisted ==
  \A c \in Call : \A p \in Publication :
    Removes(c, p) /\ calls[c].at = "forgotten" => p \notin index \/ p \in twice
LandedIsThere ==
  \A c \in Call : Runs(c, "import", "landed") => calls[c].of \in copies \cup twice

\* As UnlistedIsExplained, but a removal explains a copy only once it has forgotten it.
UnlistedIsBlamed ==
  \A p \in copies \ index :
    \/ p \in stray
    \/ \E c \in Call : Runs(c, "import", "landed") /\ calls[c].of = p
    \/ \E c \in Call : Removes(c, p) /\ calls[c].at = "forgotten"

\* The flag is up while an import is under way, and once closing has been decided
\* every import that is under way began after that.
FlagIsUp == \A c \in Call : Imports(c) => importing
LateIsKnown ==
  closer \in {"checked", "closing"} \/ window = "gone" => \A c \in Call : Imports(c) => calls[c].late

\* What the dialog waits for: a chooser, an inspection or an import, one at a time.
DialogWaits ==
  /\ waiting.chooser = IF dialog.phase = "choosing" THEN 1 ELSE 0
  /\ waiting.inspection = IF dialog.phase = "inspecting" THEN 1 ELSE 0
  /\ (\E c \in Call : calls[c].op = "import") <=> dialog.phase = "importing"
  /\ \A c, d \in Call : calls[c].op = "import" /\ calls[d].op = "import" => c = d
  /\ dialog.phase \in {"inspected", "importing"} => dialog.of \in Publication

CopiesInv  ==
  /\ CopiesAreImports /\ RemovalHasCopy /\ RemovalsMeet /\ ImportMeets
  /\ ImportIsUnlisted /\ ForgottenIsUnlisted
  /\ LandedIsThere /\ ListedIsThere /\ UnlistedIsBlamed
ClosingInv == FlagIsUp /\ LateIsKnown

LibraryInv ==
  TypeOK /\ LockIsHeld /\ MemoryIsTheIndex /\ RoomWasMeasured /\ CopiesInv /\ ClosingInv /\ DialogWaits

-----------------------------------------------------------------------------
(* Types.                                                                  *)

LEMMA InUseTyped ==
  ASSUME TypeOK
  PROVE  bytes_in_use \in Nat /\ measure_imports <= bytes_in_use
<1> DEFINE P == memory \cap Publication
           F == {"copy"} \X P \X {1}
<1>1. IsFiniteSet(P)
  BY FS_Subset, LibraryAssumption
<1>2. IsFiniteSet(F)
  BY <1>1, TripleFinite
<1>3. OfPublications(F)
  BY <1>2 DEF OfPublications
<1>4. Cardinality(Bytes(F)) \in Nat
  BY <1>3, BytesFinite
<1>5. imported_bytes \in Nat
  BY <1>4 DEF imported_bytes
<1>6. measure_imports \in Nat
  BY FoldersFinite
<1> QED BY <1>5, <1>6 DEF bytes_in_use

LEMMA DialogTyped ==
  ASSUME TypeOK, NEW event \in DOMAIN Legal
  PROVE  transition(dialog.phase, event) \in Phase
BY DEF TypeOK, transition, Legal, Leads, Phase, Busy

LEMMA DialogSettles ==
  ASSUME TypeOK, NEW event \in DOMAIN Legal, Settle(event)
  PROVE  dialog' \in [phase : Phase, of : Publication \cup {None}] /\ busy' \in BOOLEAN
<1>1. transition(dialog.phase, event) \in Phase
  BY DialogTyped
<1>2. dialog.of \in Publication \cup {None}
  BY DEF TypeOK
<1> QED BY <1>1, <1>2 DEF Settle, SetImport

LEMMA EditorTyped ==
  ASSUME TypeOK, DialogWaits,
         \/ beginImport \/ Dismiss \/ Choose \/ InspectionFails \/ closeImport
         \/ \E p \in Publication : Inspected(p)
  PROVE  TypeOK'
<1>1. \A event \in DOMAIN Legal : transition(dialog.phase, event) \in Phase
  BY DialogTyped
<1>2. DOMAIN Legal = {"begin", "chose", "dismissed", "inspected", "confirm", "imported",
                      "failed", "acknowledge"}
  BY DEF Legal
<1>3. UNCHANGED <<diskVars, memory, lock, importing, calls, closeVars, boundVars>>
  BY DEF beginImport, Dismiss, Choose, InspectionFails, closeImport, Inspected
<1>4. dialog' \in [phase : Phase, of : Publication \cup {None}] /\ busy' \in BOOLEAN
  <2>1. dialog.of \in Publication \cup {None} /\ busy \in BOOLEAN
    BY DEF TypeOK
  <2>2. CASE beginImport
    BY <1>1, <1>2, <2>1, <2>2 DEF beginImport, Settle, SetImport
  <2>3. CASE Dismiss
    BY <1>1, <1>2, <2>1, <2>3 DEF Dismiss, Settle, SetImport
  <2>4. CASE Choose
    BY <1>1, <1>2, <2>1, <2>4 DEF Choose, Settle, SetImport
  <2>5. CASE InspectionFails
    BY <1>1, <1>2, <2>1, <2>5 DEF InspectionFails, Settle, SetImport
  <2>6. CASE closeImport
    BY <2>1, <2>6 DEF closeImport, Phase
  <2>7. CASE \E p \in Publication : Inspected(p)
    BY <1>1, <1>2, <2>7 DEF Inspected, SetImport
  <2> QED BY <2>2, <2>3, <2>4, <2>5, <2>6, <2>7
<1>5. waiting' \in [{"chooser", "inspection"} -> Nat]
  <2>1. waiting \in [{"chooser", "inspection"} -> Nat]
    BY DEF TypeOK
  <2> QED BY <2>1 DEF beginImport, Dismiss, Choose, InspectionFails, closeImport, Inspected
<1> QED BY <1>3, <1>4, <1>5 DEF TypeOK, diskVars, closeVars, boundVars


LEMMA EditorCallsTyped ==
  ASSUME TypeOK, DialogWaits, NEW c \in Call,
         \/ confirmImport(c) \/ ImportAnswered(c) \/ RemoveAnswered(c)
         \/ ListAnswered(c) \/ RememberAnswered(c)
         \/ \E i \in Publication \cup Project, copy \in BOOLEAN : removeFromLibrary(c, i, copy)
         \/ \E i \in Project : Remember(c, i)
  PROVE  TypeOK'
<1>1. \A event \in DOMAIN Legal : transition(dialog.phase, event) \in Phase
  BY DialogTyped
<1>2. DOMAIN Legal = {"begin", "chose", "dismissed", "inspected", "confirm", "imported",
                      "failed", "acknowledge"}
  BY DEF Legal
<1>3. /\ UNCHANGED <<diskVars, memory, lock, importing, waiting, closeVars, stray, twice, starts>>
      /\ asked' \in Nat
  BY DEF TypeOK, confirmImport, ImportAnswered, RemoveAnswered, ListAnswered, RememberAnswered,
         removeFromLibrary, Remember, Ask, boundVars
<1>4. dialog' \in [phase : Phase, of : Publication \cup {None}] /\ busy' \in BOOLEAN
  <2>1. dialog \in [phase : Phase, of : Publication \cup {None}] /\ busy \in BOOLEAN
    BY DEF TypeOK
  <2>2. CASE confirmImport(c)
    BY <1>1, <1>2, <2>1, <2>2 DEF confirmImport, Settle, SetImport
  <2>3. CASE ImportAnswered(c)
    <3>1. Settle("imported") \/ Settle("failed")
      BY <2>3 DEF ImportAnswered
    <3>2. "imported" \in DOMAIN Legal /\ "failed" \in DOMAIN Legal
      BY <1>2
    <3> QED BY <3>1, <3>2, DialogSettles
  <2>4. CASE RemoveAnswered(c)
    BY <2>1, <2>4 DEF RemoveAnswered
  <2>5. CASE ListAnswered(c)
    <3>1. Settle("acknowledge") \/ (busy' = FALSE /\ UNCHANGED dialog)
      BY <2>5, Zenon DEF ListAnswered
    <3>2. "acknowledge" \in DOMAIN Legal
      BY <1>2
    <3> QED BY <2>1, <3>1, <3>2, DialogSettles
  <2>6. CASE RememberAnswered(c)
    BY <2>1, <2>6 DEF RememberAnswered
  <2>7. CASE \E i \in Publication \cup Project, copy \in BOOLEAN : removeFromLibrary(c, i, copy)
    BY <2>1, <2>7 DEF removeFromLibrary
  <2>8. CASE \E i \in Project : Remember(c, i)
    BY <2>1, <2>8 DEF Remember
  <2> QED BY <2>2, <2>3, <2>4, <2>5, <2>6, <2>7, <2>8
<1>5. calls' \in [Call -> Ops]
  <2>1. \E call \in Ops : calls' = [calls EXCEPT ![c] = call]
    <3>1. CASE confirmImport(c)
      <4>1. dialog.of \in Publication
        BY <3>1 DEF confirmImport, transition, Legal, DialogWaits
      <4> DEFINE call == [op |-> "import", of |-> dialog.of, late |-> FALSE, used |-> 0, at |-> "asked"]
      <4>2. call \in Ops
        BY <4>1 DEF Ops
      <4> QED BY <3>1, <4>2 DEF confirmImport, Ask
    <3>2. CASE ImportAnswered(c)
      BY <3>2 DEF ImportAnswered, Ops, Idle
    <3>3. CASE RemoveAnswered(c)
      BY <3>3 DEF RemoveAnswered, Ops, Idle
    <3>4. CASE ListAnswered(c)
      BY <3>4 DEF ListAnswered, Ops, Idle
    <3>5. CASE RememberAnswered(c)
      BY <3>5 DEF RememberAnswered, Ops, Idle
    <3>6. ASSUME NEW i \in Publication \cup Project, NEW copy \in BOOLEAN, removeFromLibrary(c, i, copy)
          PROVE  \E call \in Ops : calls' = [calls EXCEPT ![c] = call]
      <4>1. [op |-> "remove", of |-> i, copy |-> copy, at |-> "asked"] \in Ops
        BY DEF Ops
      <4> QED BY <3>6, <4>1 DEF removeFromLibrary, Ask
    <3>7. ASSUME NEW i \in Project, Remember(c, i)
          PROVE  \E call \in Ops : calls' = [calls EXCEPT ![c] = call]
      <4>1. [op |-> "remember", of |-> i, at |-> "asked"] \in Ops
        BY DEF Ops
      <4> QED BY <3>7, <4>1 DEF Remember, Ask
    <3> QED BY <3>1, <3>2, <3>3, <3>4, <3>5, <3>6, <3>7
  <2> QED BY <2>1, Replacing
<1> QED BY <1>3, <1>4, <1>5 DEF TypeOK, diskVars, closeVars

LEMMA CommandTyped ==
  ASSUME TypeOK, CopiesAreImports, NEW c \in Call, Command(c)
  PROVE  TypeOK'
<1> USE DEF Runs
<1>1. CASE Enter(c)
  <2>1. \E late \in BOOLEAN : calls' = [calls EXCEPT ![c].at = "flagged", ![c].late = late]
    BY <1>1 DEF Enter
  <2>2. calls[c].op = "import" /\ calls[c].used \in Nat
    BY <1>1, CommandFields DEF Enter
  <2>3. calls' \in [Call -> Ops]
    BY <2>1, <2>2, ImportMoves
  <2> QED BY <1>1, <2>3 DEF Enter, TypeOK, diskVars, editorVars, closeVars, boundVars
<1>2. CASE Measure(c)
  <2>1. calls[c].op = "import" /\ calls[c].late \in BOOLEAN /\ bytes_in_use \in Nat
    BY <1>2, CommandFields, InUseTyped DEF Measure
  <2>2. calls' \in [Call -> Ops]
    BY <1>2, <2>1, ImportMoves DEF Measure
  <2> QED BY <1>2, <2>2 DEF Measure, TypeOK, diskVars, editorVars, closeVars, boundVars
<1>3. CASE RefuseFolder(c)
  <2>1. /\ calls[c].op = "import" /\ calls[c].late \in BOOLEAN /\ calls[c].used \in Nat
        /\ calls[c].of \in Publication
    BY <1>3, CommandFields DEF RefuseFolder
  <2>2. Become(c, "failed")
    BY <1>3 DEF RefuseFolder, End
  <2>3. calls' \in [Call -> Ops]
    BY <2>1, <2>2, ImportBecomes
  <2> QED BY <1>3, <2>1, <2>3 DEF RefuseFolder, End, TypeOK, diskVars, editorVars, closeVars, boundVars
<1>4. CASE RefuseFull(c)
  <2>1. /\ calls[c].op = "import" /\ calls[c].late \in BOOLEAN /\ calls[c].used \in Nat
        /\ calls[c].of \in Publication
    BY <1>4, CommandFields DEF RefuseFull
  <2>2. Become(c, "failed")
    BY <1>4 DEF RefuseFull, End
  <2>3. calls' \in [Call -> Ops]
    BY <2>1, <2>2, ImportBecomes
  <2>4. old' \in [Publication -> Nat] /\ lock' = None /\ importing' = FALSE
    BY <1>4 DEF RefuseFull, sweep_staging, End
  <2>5. UNCHANGED <<index, copies, young, memory, stray, editorVars, closeVars, twice, starts, asked>>
    BY <1>4 DEF RefuseFull, End
  <2> QED BY <2>3, <2>4, <2>5 DEF TypeOK, editorVars, closeVars
<1>5. CASE Stage(c)
  <2>1. /\ calls[c].op = "import" /\ calls[c].late \in BOOLEAN /\ calls[c].used \in Nat
        /\ calls[c].of \in Publication
    BY <1>5, CommandFields DEF Stage
  <2>2. Become(c, "staged")
    BY <1>5 DEF Stage
  <2>3. calls' \in [Call -> Ops]
    BY <2>1, <2>2, ImportBecomes
  <2> QED BY <1>5, <2>1, <2>3 DEF Stage, sweep_staging, TypeOK, diskVars, editorVars, closeVars, boundVars
<1>6. CASE StagingFails(c)
  <2>1. /\ calls[c].op = "import" /\ calls[c].late \in BOOLEAN /\ calls[c].used \in Nat
        /\ calls[c].of \in Publication
    BY <1>6, CommandFields DEF StagingFails
  <2>2. Become(c, "failed")
    BY <1>6 DEF StagingFails, End
  <2>3. calls' \in [Call -> Ops]
    BY <2>1, <2>2, ImportBecomes
  <2>4. young' \in [Publication -> Nat]
    <3>1. young' = young \/ young' = [young EXCEPT ![calls[c].of] = @ + 1]
      BY <1>6 DEF StagingFails
    <3> QED BY <2>1, <3>1 DEF TypeOK
  <2>5. /\ lock' = None /\ importing' = FALSE
        /\ UNCHANGED <<index, copies, old, memory, stray, editorVars, closeVars, twice, starts, asked>>
    BY <1>6 DEF StagingFails, End
  <2> QED BY <2>3, <2>4, <2>5 DEF TypeOK, editorVars, closeVars
<1>7. CASE Land(c)
  <2>1. /\ calls[c].op = "import" /\ calls[c].late \in BOOLEAN /\ calls[c].used \in Nat
        /\ calls[c].of \in Publication
    BY <1>7, CommandFields DEF Land
  <2>2. Become(c, "landed")
    BY <1>7 DEF Land
  <2>3. calls' \in [Call -> Ops]
    BY <2>1, <2>2, ImportBecomes
  <2> QED BY <1>7, <2>1, <2>3 DEF Land, TypeOK, diskVars, editorVars, closeVars, boundVars
<1>8. CASE List(c)
  <2>1. /\ calls[c].op = "import" /\ calls[c].late \in BOOLEAN /\ calls[c].used \in Nat
        /\ calls[c].of \in Publication
    BY <1>8, CommandFields DEF List
  <2>2. Become(c, "done")
    BY <1>8 DEF List, End
  <2>3. calls' \in [Call -> Ops]
    BY <2>1, <2>2, ImportBecomes
  <2> QED BY <1>8, <2>1, <2>3 DEF List, End, Keep, TypeOK, diskVars, editorVars, closeVars, boundVars
<1>9. CASE ListingFails(c)
  <2>1. /\ calls[c].op = "import" /\ calls[c].late \in BOOLEAN /\ calls[c].used \in Nat
        /\ calls[c].of \in Publication
    BY <1>9, CommandFields DEF ListingFails
  <2>2. Become(c, "failed")
    BY <1>9 DEF ListingFails, End
  <2>3. calls' \in [Call -> Ops]
    BY <2>1, <2>2, ImportBecomes
  <2> QED BY <1>9, <2>1, <2>3 DEF ListingFails, End, TypeOK, diskVars, editorVars, closeVars, boundVars
<1>10. ASSUME calls[c].op = "remove",
             \E at \in {"found", "forgotten", "done", "failed"} : Become(c, at)
      PROVE  calls' \in [Call -> Ops]
  BY <1>10, RemovalMoves
<1>11. CASE FindEntry(c)
  <2>1. calls[c].op = "remove" /\ \E at \in {"found", "forgotten", "done", "failed"} : Become(c, at)
    BY <1>11 DEF FindEntry
  <2>2. calls' \in [Call -> Ops]
    BY <1>10, <2>1
  <2>3. twice' \subseteq Publication
    BY <1>11 DEF FindEntry, TypeOK, CopiesAreImports
  <2> QED BY <1>11, <2>2, <2>3 DEF FindEntry, TypeOK, diskVars, editorVars, closeVars, boundVars
<1>12. CASE Forget(c)
  <2>1. calls[c].op = "remove" /\ \E at \in {"found", "forgotten", "done", "failed"} : Become(c, at)
    BY <1>12 DEF Forget
  <2>2. calls' \in [Call -> Ops]
    BY <1>10, <2>1
  <2> QED BY <1>12, <2>2 DEF Forget, Keep, TypeOK, diskVars, editorVars, closeVars, boundVars
<1>13. CASE ForgettingFails(c)
  <2>1. calls[c].op = "remove" /\ \E at \in {"found", "forgotten", "done", "failed"} : Become(c, at)
    BY <1>13 DEF ForgettingFails
  <2>2. calls' \in [Call -> Ops]
    BY <1>10, <2>1
  <2> QED BY <1>13, <2>2 DEF ForgettingFails, TypeOK, diskVars, editorVars, closeVars, boundVars
<1>14. CASE DeleteCopy(c)
  <2>1. calls[c].op = "remove" /\ \E at \in {"found", "forgotten", "done", "failed"} : Become(c, at)
    BY <1>14 DEF DeleteCopy
  <2>2. calls' \in [Call -> Ops]
    BY <1>10, <2>1
  <2> QED BY <1>14, <2>2 DEF DeleteCopy, TypeOK, diskVars, editorVars, closeVars, boundVars
<1>15. CASE remember(c)
  <2>1. calls' \in [Call -> Ops]
    BY <1>15, OtherMoves DEF remember
  <2>2. calls[c].op = "remember" => calls[c].of \in Project
    BY CommandFields
  <2> QED BY <1>15, <2>1, <2>2 DEF remember, Keep, TypeOK, diskVars, editorVars, closeVars, boundVars
<1>16. CASE library_list(c)
  <2>1. calls' \in [Call -> Ops]
    BY <1>16, OtherMoves DEF library_list
  <2>2. calls[c].op = "remember" => calls[c].of \in Project
    BY CommandFields
  <2> QED BY <1>16, <2>1, <2>2 DEF library_list, TypeOK, diskVars, editorVars, closeVars, boundVars
<1> QED BY <1>1, <1>2, <1>3, <1>4, <1>5, <1>6, <1>7, <1>8, <1>9, <1>11, <1>12, <1>13, <1>14, <1>15, <1>16 DEF Command, import_reserving, library_remove

LEMMA WindowTyped ==
  ASSUME TypeOK, Window \/ Die \/ Age \/ Start
  PROVE  TypeOK'
<1>1. CASE Window
  <2>1. UNCHANGED <<diskVars, memory, lock, importing, calls, editorVars, boundVars>>
    BY <1>1 DEF Window, CloseRequested, HearClose, CheckClose, SetClosing, CloseFails
  <2>2. window' \in {"open", "gone", "down"} /\ closer' \in {"none", "asked", "sent", "checked", "closing"}
    BY <1>1 DEF TypeOK, Window, CloseRequested, HearClose, CheckClose, SetClosing, CloseFails
  <2> QED BY <2>1, <2>2 DEF TypeOK, diskVars, editorVars, boundVars
<1>2. CASE Die
  <2>1. young' \in [Publication -> Nat]
    BY <1>2 DEF Die, TypeOK
  <2>2. calls' \in [Call -> Ops]
    BY <1>2 DEF Die, Ops, Idle
  <2>3. copies \subseteq Publication /\ stray' \subseteq Publication
    BY <1>2 DEF Die, TypeOK
  <2>4. /\ dialog' \in [phase : Phase, of : Publication \cup {None}]
        /\ waiting' \in [{"chooser", "inspection"} -> Nat]
    BY <1>2 DEF Die, Phase
  <2> QED BY <1>2, <2>1, <2>2, <2>3, <2>4 DEF Die, TypeOK
<1>3. CASE Age
  BY <1>3 DEF Age, TypeOK, editorVars, closeVars, boundVars
<1>4. CASE Start
  BY <1>4 DEF Start, sweep_staging, TypeOK, editorVars
<1> QED BY <1>1, <1>2, <1>3, <1>4

-----------------------------------------------------------------------------
(***************************************************************************)
(* What a step does to the commands that matter: the import that holds the *)
(* lock, and the removals that have found their entry.                     *)
(***************************************************************************)

Removing(c) == calls[c].op = "remove" /\ calls[c].at \in {"found", "forgotten"}

\* A step beside them: it touches neither them nor what they work on.
Aside ==
  /\ UNCHANGED <<index, copies, young, old, lock, stray, twice>>
  /\ \A c \in Call : \/ calls'[c] = calls[c]
                     \/ /\ ~Holds(c) /\ ~Removing(c)
                        /\ ~Holds(c)' /\ ~Removing(c)'

\* A step of one import and of one removal.
ImportStep(c, from, to) ==
  /\ calls[c].op = "import" /\ calls[c].of \in Publication /\ calls[c].at = from
  /\ calls'[c].op = "import" /\ calls'[c].of = calls[c].of /\ calls'[c].at = to
  /\ from # "asked" => calls'[c].late = calls[c].late
  /\ \A d \in Call : d # c => calls'[d] = calls[d]
RemovalStep(c, from, to) ==
  /\ calls[c].op = "remove" /\ calls[c].at = from
  /\ calls'[c].op = "remove" /\ calls'[c].of = calls[c].of /\ calls'[c].copy = calls[c].copy
  /\ calls'[c].at = to
  /\ \A d \in Call : d # c => calls'[d] = calls[d]

LEMMA ImportSteps ==
  ASSUME TypeOK, NEW c \in Call
  PROVE  /\ Enter(c) => ImportStep(c, "asked", "flagged")
         /\ Measure(c) => ImportStep(c, "flagged", "measured") /\ calls'[c].used = bytes_in_use
         /\ RefuseFolder(c) \/ RefuseFull(c) => ImportStep(c, "measured", "failed")
         /\ Stage(c) => ImportStep(c, "measured", "staged")
         /\ StagingFails(c) => ImportStep(c, "staged", "failed")
         /\ Land(c) => ImportStep(c, "staged", "landed")
         /\ List(c) => ImportStep(c, "landed", "done")
         /\ ListingFails(c) => ImportStep(c, "landed", "failed")
<1> USE DEF Runs
<1>1. calls[c].op = "import" =>
        calls[c].of \in Publication /\ calls[c].late \in BOOLEAN /\ calls[c].used \in Nat
  BY CommandFields
<1>2. ASSUME NEW from, NEW to \in {"flagged", "staged", "landed", "done", "failed"},
             Runs(c, "import", from), Become(c, to)
      PROVE  ImportStep(c, from, to)
  <2>1. /\ calls'[c].op = "import" /\ calls'[c].of = calls[c].of /\ calls'[c].at = to
        /\ calls'[c].late = calls[c].late
        /\ \A d \in Call : d # c => calls'[d] = calls[d]
    BY <1>2, ImportBecomes
  <2> QED BY <1>1, <1>2, <2>1 DEF ImportStep
<1>3. ASSUME Enter(c) PROVE ImportStep(c, "asked", "flagged")
  <2>1. \E late \in BOOLEAN : calls' = [calls EXCEPT ![c].at = "flagged", ![c].late = late]
    BY <1>3 DEF Enter
  <2> QED BY <1>1, <1>3, <2>1, ImportMoves DEF ImportStep, Enter
<1>4. ASSUME Measure(c)
      PROVE  ImportStep(c, "flagged", "measured") /\ calls'[c].used = bytes_in_use
  BY <1>1, <1>4, InUseTyped, ImportMoves DEF ImportStep, Measure
<1>5. ASSUME RefuseFolder(c) \/ RefuseFull(c) PROVE ImportStep(c, "measured", "failed")
  BY <1>2, <1>5 DEF RefuseFolder, RefuseFull, End
<1>6. ASSUME Stage(c) PROVE ImportStep(c, "measured", "staged")
  BY <1>2, <1>6 DEF Stage
<1>7. ASSUME StagingFails(c) PROVE ImportStep(c, "staged", "failed")
  BY <1>2, <1>7 DEF StagingFails, End
<1>8. ASSUME Land(c) PROVE ImportStep(c, "staged", "landed")
  BY <1>2, <1>8 DEF Land
<1>9. ASSUME List(c) PROVE ImportStep(c, "landed", "done")
  BY <1>2, <1>9 DEF List, End
<1>10. ASSUME ListingFails(c) PROVE ImportStep(c, "landed", "failed")
  BY <1>2, <1>10 DEF ListingFails, End
<1> QED BY <1>3, <1>4, <1>5, <1>6, <1>7, <1>8, <1>9, <1>10

LEMMA RemovalSteps ==
  ASSUME TypeOK, NEW c \in Call
  PROVE  /\ FindEntry(c) /\ calls[c].of \in memory => RemovalStep(c, "asked", "found")
         /\ FindEntry(c) /\ calls[c].of \notin memory => RemovalStep(c, "asked", "done")
         /\ Forget(c) /\ calls[c].copy => RemovalStep(c, "found", "forgotten")
         /\ Forget(c) /\ ~calls[c].copy => RemovalStep(c, "found", "done")
         /\ ForgettingFails(c) => RemovalStep(c, "found", "failed")
         /\ DeleteCopy(c) => RemovalStep(c, "forgotten", "done") \/ RemovalStep(c, "forgotten", "failed")
<1> USE DEF Runs
<1>1. ASSUME NEW from, NEW to \in {"found", "forgotten", "done", "failed"},
             Runs(c, "remove", from), Become(c, to)
      PROVE  RemovalStep(c, from, to)
  BY <1>1, RemovalMoves DEF RemovalStep
<1>2. ASSUME FindEntry(c), calls[c].of \in memory PROVE RemovalStep(c, "asked", "found")
  BY <1>1, <1>2 DEF FindEntry
<1>3. ASSUME FindEntry(c), calls[c].of \notin memory PROVE RemovalStep(c, "asked", "done")
  BY <1>1, <1>3 DEF FindEntry
<1>4. ASSUME Forget(c), calls[c].copy PROVE RemovalStep(c, "found", "forgotten")
  BY <1>1, <1>4 DEF Forget
<1>5. ASSUME Forget(c), ~calls[c].copy PROVE RemovalStep(c, "found", "done")
  BY <1>1, <1>5 DEF Forget
<1>6. ASSUME ForgettingFails(c) PROVE RemovalStep(c, "found", "failed")
  BY <1>1, <1>6 DEF ForgettingFails
<1>7. ASSUME DeleteCopy(c)
      PROVE  RemovalStep(c, "forgotten", "done") \/ RemovalStep(c, "forgotten", "failed")
  BY <1>1, <1>7 DEF DeleteCopy
<1> QED BY <1>2, <1>3, <1>4, <1>5, <1>6, <1>7

LEMMA StepsAside ==
  ASSUME TypeOK, Editor \/ Window \/ \E c \in Call : Enter(c) \/ library_list(c)
  PROVE  Aside
<1> USE DEF Holds, Removing, Runs
<1>1. CASE \/ beginImport \/ Dismiss \/ Choose \/ InspectionFails \/ closeImport
           \/ \E p \in Publication : Inspected(p)
  BY <1>1 DEF beginImport, Dismiss, Choose, InspectionFails, closeImport, Inspected, Aside,
              diskVars, boundVars
<1>2. CASE Window
  BY <1>2 DEF Window, CloseRequested, HearClose, CheckClose, SetClosing, CloseFails, Aside,
              diskVars, boundVars
<1>3. ASSUME NEW c \in Call,
             \/ confirmImport(c) \/ ImportAnswered(c) \/ RemoveAnswered(c)
             \/ ListAnswered(c) \/ RememberAnswered(c)
             \/ \E i \in Publication \cup Project, copy \in BOOLEAN : removeFromLibrary(c, i, copy)
             \/ \E i \in Project : Remember(c, i)
      PROVE  Aside
  <2>1. UNCHANGED <<diskVars, lock, stray, twice>>
    BY <1>3 DEF confirmImport, ImportAnswered, RemoveAnswered, ListAnswered, RememberAnswered,
                removeFromLibrary, Remember, boundVars
  <2>2. PICK call : /\ calls' = [calls EXCEPT ![c] = call]
                    /\ call.op \in {"none", "list"} \/ call.at = "asked"
    BY <1>3 DEF confirmImport, ImportAnswered, RemoveAnswered, ListAnswered, RememberAnswered,
                removeFromLibrary, Remember, Ask, Idle
  <2>3. ~Holds(c) /\ ~Removing(c)
    BY <1>3 DEF confirmImport, ImportAnswered, RemoveAnswered, ListAnswered, RememberAnswered,
                removeFromLibrary, Remember, Ask, Idle
  <2>4. calls'[c] = call /\ \A d \in Call : d # c => calls'[d] = calls[d]
    BY <2>2 DEF TypeOK
  <2>5. ~Holds(c)' /\ ~Removing(c)'
    BY <2>2, <2>4
  <2> QED BY <2>1, <2>3, <2>4, <2>5 DEF Aside, diskVars
<1>4. ASSUME NEW c \in Call, Enter(c) PROVE Aside
  <2>1. ImportStep(c, "asked", "flagged")
    BY <1>4, ImportSteps
  <2> QED BY <1>4, <2>1 DEF Enter, ImportStep, Aside, diskVars, boundVars
<1>5. ASSUME NEW c \in Call, library_list(c) PROVE Aside
  <2>1. /\ calls[c].op = "list" /\ calls'[c].op = "list"
        /\ \A d \in Call : d # c => calls'[d] = calls[d]
    BY <1>5, OtherMoves DEF library_list
  <2> QED BY <1>5, <2>1 DEF library_list, Aside, diskVars, boundVars
<1> QED BY <1>1, <1>2, <1>3, <1>4, <1>5 DEF Editor

-----------------------------------------------------------------------------
(* The lock.                                                               *)

\* An import that ends lets go of the lock, and any removal leaves it alone.
LEMMA ImportEnds ==
  ASSUME TypeOK, NEW c \in Call,
         RefuseFolder(c) \/ RefuseFull(c) \/ StagingFails(c) \/ List(c) \/ ListingFails(c)
  PROVE  /\ \E from \in {"measured", "staged", "landed"}, to \in {"done", "failed"} :
              ImportStep(c, from, to)
         /\ lock' = None /\ importing' = FALSE
         /\ UNCHANGED <<twice, editorVars, closeVars>>
<1>1. lock' = None /\ importing' = FALSE /\ UNCHANGED <<twice, editorVars, closeVars>>
  BY DEF RefuseFolder, RefuseFull, StagingFails, List, ListingFails, End
<1> QED BY <1>1, ImportSteps

LEMMA RemovalGoesOn ==
  ASSUME TypeOK, NEW c \in Call,
         FindEntry(c) \/ Forget(c) \/ ForgettingFails(c) \/ DeleteCopy(c)
  PROVE  /\ \E from, to : RemovalStep(c, from, to)
         /\ UNCHANGED <<young, old, lock, importing, editorVars, closeVars>>
<1>1. UNCHANGED <<young, old, lock, importing, editorVars, closeVars>>
  BY DEF FindEntry, Forget, ForgettingFails, DeleteCopy, diskVars
<1>2. \E from, to : RemovalStep(c, from, to)
  BY RemovalSteps
<1> QED BY <1>1, <1>2

LEMMA OthersGoOn ==
  ASSUME TypeOK, NEW c \in Call, remember(c)
  PROVE  /\ calls[c].op = "remember" /\ calls'[c].op = "remember"
         /\ \A d \in Call : d # c => calls'[d] = calls[d]
BY OtherMoves DEF remember, Runs

LEMMA LockStep ==
  ASSUME TypeOK, LockIsHeld, Next
  PROVE  LockIsHeld'
<1> USE DEF LockIsHeld, Holds
<1>1. CASE Aside
  BY <1>1 DEF Aside
<1>2. ASSUME NEW c \in Call, Measure(c) PROVE LockIsHeld'
  BY <1>2, ImportSteps, LibraryAssumption DEF Measure, ImportStep
<1>3. ASSUME NEW c \in Call, Stage(c) \/ Land(c) PROVE LockIsHeld'
  <2>1. ImportStep(c, "measured", "staged") \/ ImportStep(c, "staged", "landed")
    BY <1>3, ImportSteps
  <2>2. UNCHANGED lock
    BY <1>3 DEF Stage, Land
  <2> QED BY <2>1, <2>2 DEF ImportStep
<1>4. ASSUME NEW c \in Call,
             RefuseFolder(c) \/ RefuseFull(c) \/ StagingFails(c) \/ List(c) \/ ListingFails(c)
      PROVE  LockIsHeld'
  BY <1>4, ImportEnds, LibraryAssumption DEF ImportStep
<1>5. ASSUME NEW c \in Call, FindEntry(c) \/ Forget(c) \/ ForgettingFails(c) \/ DeleteCopy(c)
      PROVE  LockIsHeld'
  BY <1>5, RemovalGoesOn DEF RemovalStep
<1>6. ASSUME NEW c \in Call, remember(c) PROVE LockIsHeld'
  <2>1. UNCHANGED lock
    BY <1>6 DEF remember
  <2> QED BY <1>6, <2>1, OthersGoOn
<1>7. CASE Die
  BY <1>7, LibraryAssumption DEF Die, Idle
<1>8. CASE Age \/ Start
  BY <1>8 DEF Age, Start
<1> QED
  BY <1>1, <1>2, <1>3, <1>4, <1>5, <1>6, <1>7, <1>8, StepsAside
  DEF Next, Command, import_reserving, library_remove

\* Whoever is at it has the lock for itself.
LEMMA OneHolder ==
  ASSUME LockIsHeld
  PROVE  /\ \A c, d \in Call : Holds(c) /\ Holds(d) => c = d
         /\ lock = None => \A c \in Call : ~Holds(c)
BY LibraryAssumption DEF LockIsHeld

-----------------------------------------------------------------------------
(* The ceiling.                                                            *)

LEMMA FoldersHave ==
  ASSUME TypeOK
  PROVE  /\ \A p \in copies : <<"copy", p, 1>> \in Folders
         /\ \A c \in Call : Runs(c, "import", "staged") => <<"staged", calls[c].of, 1>> \in Folders
         /\ \A p \in Publication : \A k \in 1 .. young[p] + old[p] : <<"left", p, k>> \in Folders
<1>1. \A c \in Call : Runs(c, "import", "staged") => calls[c].of \in Staged
  BY DEF Staged
<1>2. \A p \in Publication : \A k \in 1 .. young[p] + old[p] : <<"left", p, k>> \in Left
  BY DEF Left
<1> QED BY <1>1, <1>2 DEF Folders

\* What may lie in imports/ after a step.
LEMMA FoldersAfter ==
  ASSUME NEW X,
         \A p \in copies' : <<"copy", p, 1>> \in X,
         \A c \in Call : Runs(c, "import", "staged")' => <<"staged", calls'[c].of, 1>> \in X,
         \A p \in Publication : \A k \in 1 .. young'[p] + old'[p] : <<"left", p, k>> \in X
  PROVE  Folders' \subseteq X
<1>1. \A f \in Left' : f \in X
  BY DEF Left
<1>2. \A p \in Staged' : <<"staged", p, 1>> \in X
  BY DEF Staged
<1> QED BY <1>1, <1>2 DEF Folders

\* Nobody is at it who was not, so imports/ holds no more as long as nothing is added.
LEMMA NothingAdded ==
  ASSUME TypeOK, copies' \subseteq copies,
         \A c \in Call : Runs(c, "import", "staged")' =>
                           Runs(c, "import", "staged") /\ calls'[c].of = calls[c].of,
         \A p \in Publication : young'[p] + old'[p] <= young[p] + old[p],
         young' \in [Publication -> Nat], old' \in [Publication -> Nat]
  PROVE  measure_imports' \in Nat /\ measure_imports' <= measure_imports
<1>1. \A c \in Call : Runs(c, "import", "staged")' => <<"staged", calls'[c].of, 1>> \in Folders
  BY FoldersHave
<1>2. \A p \in Publication : \A k \in 1 .. young'[p] + old'[p] : <<"left", p, k>> \in Folders
  <2>1. ASSUME NEW p \in Publication, NEW k \in 1 .. young'[p] + old'[p]
        PROVE  k \in 1 .. young[p] + old[p]
    BY DEF TypeOK
  <2> QED BY <2>1, FoldersHave
<1>3. \A p \in copies' : <<"copy", p, 1>> \in Folders
  BY FoldersHave
<1>4. Folders' \subseteq Folders
  BY <1>1, <1>2, <1>3, FoldersAfter
<1> QED BY <1>4, WeighsNoMore

LEMMA RoomStays ==
  ASSUME TypeOK, RoomWasMeasured, measure_imports' \in Nat, measure_imports' <= measure_imports,
         \A c \in Call : Runs(c, "import", "measured")' =>
                           Runs(c, "import", "measured") /\ calls'[c].used = calls[c].used
  PROVE  RoomWasMeasured'
<1>1. measure_imports \in Nat /\ MaxBytes \in Nat
  BY FoldersFinite, LibraryAssumption
<1>2. WithinCeiling'
  BY <1>1 DEF RoomWasMeasured, WithinCeiling
<1>3. ASSUME NEW c \in Call, Runs(c, "import", "measured")'
      PROVE  measure_imports' <= calls'[c].used
  <2>1. calls[c].used \in Nat /\ measure_imports <= calls[c].used /\ calls'[c].used = calls[c].used
    BY <1>3, CommandFields DEF RoomWasMeasured, Runs
  <2> QED BY <1>1, <2>1
<1> QED BY <1>2, <1>3 DEF RoomWasMeasured

\* An import that writes a folder: the room it takes was measured, and stays free
\* until then because nobody else holds the lock.
LEMMA RoomToStage ==
  ASSUME TypeOK, LockIsHeld, RoomWasMeasured, NEW c \in Call, Stage(c)
  PROVE  RoomWasMeasured'
<1> DEFINE f == <<"staged", calls[c].of, 1>>
<1>1. ImportStep(c, "measured", "staged")
  BY ImportSteps
<1>2. /\ Runs(c, "import", "measured") /\ copies' = copies /\ young' = young
      /\ old' = [p \in Publication |-> 0] /\ calls[c].used + Size[calls[c].of] <= MaxBytes
  BY DEF Stage, sweep_staging, room_for
<1>3. f[2] \in Publication /\ f[2] = calls[c].of
  BY <1>1 DEF ImportStep
<1>4. Folders' \subseteq Folders \cup {f}
  <2>1. \A p \in Publication : \A k \in 1 .. young'[p] + old'[p] : k \in 1 .. young[p] + old[p]
    BY <1>2 DEF TypeOK
  <2>2. \A d \in Call : Runs(d, "import", "staged")' => <<"staged", calls'[d].of, 1>> \in Folders \cup {f}
    BY <1>1, FoldersHave DEF ImportStep, Runs
  <2>3. \A p \in copies' : <<"copy", p, 1>> \in Folders \cup {f}
    BY <1>2, FoldersHave
  <2>4. \A p \in Publication : \A k \in 1 .. young'[p] + old'[p] : <<"left", p, k>> \in Folders \cup {f}
    BY <2>1, FoldersHave
  <2> QED BY <2>2, <2>3, <2>4, FoldersAfter
<1> HIDE DEF f
<1>5. measure_imports' \in Nat /\ measure_imports' <= measure_imports + Size[f[2]]
  BY <1>3, <1>4, WeighsOneMore
<1>6. /\ measure_imports \in Nat /\ measure_imports <= calls[c].used
      /\ calls[c].used \in Nat /\ Size[calls[c].of] \in Nat /\ MaxBytes \in Nat
  BY <1>1, <1>2, FoldersFinite, CommandFields, LibraryAssumption DEF RoomWasMeasured, Runs, ImportStep
<1>7. measure_imports' <= MaxBytes
  BY <1>2, <1>3, <1>5, <1>6
<1>8. ASSUME NEW d \in Call PROVE ~Runs(d, "import", "measured")'
  <2>1. CASE d = c
    BY <1>1, <2>1 DEF ImportStep, Runs
  <2>2. CASE d # c
    <3>1. ~Holds(d)
      BY <1>2, <2>2, OneHolder DEF Holds, Runs
    <3> QED BY <1>1, <2>2, <3>1 DEF ImportStep, Runs, Holds
  <2> QED BY <2>1, <2>2
<1> QED BY <1>7, <1>8 DEF RoomWasMeasured, WithinCeiling

\* What was being staged is moved into place, or left behind: the room it takes is the
\* same. Nobody is at it afterwards but who moved it.
LEMMA RoomToMove ==
  ASSUME TypeOK, LockIsHeld, RoomWasMeasured, NEW c \in Call, Runs(c, "import", "staged"),
         \A d \in Call : d # c => ~Holds(d)',
         ~Runs(c, "import", "measured")', ~Runs(c, "import", "staged")',
         NEW g, g[2] = calls[c].of, <<"staged", calls[c].of, 1>> # g,
         \A p \in copies' : p \in copies \/ <<"copy", p, 1>> = g,
         \A p \in Publication : \A k \in 1 .. young'[p] + old'[p] :
           k \in 1 .. young[p] + old[p] \/ <<"left", p, k>> = g
  PROVE  RoomWasMeasured'
<1> DEFINE f == <<"staged", calls[c].of, 1>>
           X == (Folders \ {f}) \cup {g}
<1>1. f \in Folders /\ g[2] = f[2]
  BY FoldersHave
<1>2. \A d \in Call : ~Runs(d, "import", "staged")' /\ ~Runs(d, "import", "measured")'
  BY DEF Holds, Runs
<1>3. \A p \in copies' : <<"copy", p, 1>> \in X
  BY FoldersHave
<1>4. \A p \in Publication : \A k \in 1 .. young'[p] + old'[p] : <<"left", p, k>> \in X
  BY FoldersHave
<1>5. Folders' \subseteq X
  BY <1>2, <1>3, <1>4, FoldersAfter
<1> HIDE DEF f
<1>6. measure_imports' \in Nat /\ measure_imports' <= measure_imports
  BY <1>1, <1>5, WeighsTheSame
<1>7. measure_imports \in Nat /\ MaxBytes \in Nat
  BY FoldersFinite, LibraryAssumption
<1> QED BY <1>2, <1>6, <1>7 DEF RoomWasMeasured, WithinCeiling

LEMMA RoomStep ==
  ASSUME TypeOK, LockIsHeld, RoomWasMeasured, Next
  PROVE  RoomWasMeasured'
<1>1. CASE Aside
  <2>1. \A c \in Call : \A at \in {"measured", "staged"} : Runs(c, "import", at)' =>
          /\ Runs(c, "import", at) /\ calls'[c].of = calls[c].of /\ calls'[c].used = calls[c].used
    BY <1>1 DEF Aside, Holds, Runs
  <2>2. /\ copies' = copies /\ young' = young /\ old' = old
        /\ young \in [Publication -> Nat] /\ old \in [Publication -> Nat]
    BY <1>1 DEF Aside, TypeOK
  <2>3. \A p \in Publication : young'[p] + old'[p] <= young[p] + old[p]
    BY <2>2
  <2>4. measure_imports' \in Nat /\ measure_imports' <= measure_imports
    BY <2>1, <2>2, <2>3, NothingAdded
  <2> QED BY <2>1, <2>4, RoomStays
<1>2. ASSUME NEW c \in Call, Measure(c) PROVE RoomWasMeasured'
  <2>1. ImportStep(c, "flagged", "measured") /\ calls'[c].used = bytes_in_use
    BY <1>2, ImportSteps
  <2>2. /\ copies' = copies /\ young' = young /\ old' = old
        /\ young \in [Publication -> Nat] /\ old \in [Publication -> Nat]
    BY <1>2 DEF Measure, TypeOK, diskVars
  <2>3. \A p \in Publication : young'[p] + old'[p] <= young[p] + old[p]
    BY <2>2
  <2>4. \A d \in Call : Runs(d, "import", "staged")' =>
                          Runs(d, "import", "staged") /\ calls'[d].of = calls[d].of
    BY <2>1 DEF ImportStep, Runs
  <2>5. measure_imports' \in Nat /\ measure_imports' <= measure_imports
    BY <2>2, <2>3, <2>4, NothingAdded
  <2>6. /\ measure_imports \in Nat /\ MaxBytes \in Nat
        /\ bytes_in_use \in Nat /\ measure_imports <= bytes_in_use
    BY FoldersFinite, InUseTyped, LibraryAssumption
  <2>7. \A d \in Call : Runs(d, "import", "measured")' => d = c
    BY <1>2, <2>1, OneHolder DEF Measure, ImportStep, Runs, Holds
  <2> QED BY <2>1, <2>5, <2>6, <2>7 DEF RoomWasMeasured, WithinCeiling
<1>3. ASSUME NEW c \in Call, Stage(c) PROVE RoomWasMeasured'
  BY <1>3, RoomToStage
<1>4. ASSUME NEW c \in Call, Land(c) PROVE RoomWasMeasured'
  <2>1. ImportStep(c, "staged", "landed") /\ Runs(c, "import", "staged")
    BY <1>4, ImportSteps DEF Land
  <2>2. copies' = copies \cup {calls[c].of} /\ young' = young /\ old' = old
    BY <1>4 DEF Land
  <2> DEFINE g == <<"copy", calls[c].of, 1>>
  <2>3. g[2] = calls[c].of /\ <<"staged", calls[c].of, 1>> # g
    OBVIOUS
  <2>4. /\ \A d \in Call : d # c => ~Holds(d)'
        /\ ~Runs(c, "import", "measured")' /\ ~Runs(c, "import", "staged")'
    BY <2>1, OneHolder DEF ImportStep, Runs, Holds
  <2>5. \A p \in copies' : p \in copies \/ <<"copy", p, 1>> = g
    BY <2>2
  <2> HIDE DEF g
  <2> QED BY <2>1, <2>2, <2>3, <2>4, <2>5, RoomToMove
<1>5. ASSUME NEW c \in Call, StagingFails(c) PROVE RoomWasMeasured'
  <2>1. ImportStep(c, "staged", "failed") /\ Runs(c, "import", "staged")
    BY <1>5, ImportSteps DEF StagingFails
  <2>2. /\ copies' = copies /\ old' = old
        /\ young' = young \/ young' = [young EXCEPT ![calls[c].of] = @ + 1]
    BY <1>5 DEF StagingFails
  <2> DEFINE q == calls[c].of
             g == <<"left", q, young[q] + old[q] + 1>>
  <2>3. g[2] = calls[c].of /\ <<"staged", calls[c].of, 1>> # g
    OBVIOUS
  <2>4. /\ \A d \in Call : d # c => ~Holds(d)'
        /\ ~Runs(c, "import", "measured")' /\ ~Runs(c, "import", "staged")'
    BY <2>1, OneHolder DEF ImportStep, Runs, Holds
  <2>5. ASSUME NEW p \in Publication, NEW k \in 1 .. young'[p] + old'[p]
        PROVE  k \in 1 .. young[p] + old[p] \/ <<"left", p, k>> = g
    <3>1. young[p] \in Nat /\ old[p] \in Nat
      BY DEF TypeOK
    <3>2. young'[p] = young[p] \/ (p = q /\ young'[p] = young[p] + 1)
      BY <2>2 DEF TypeOK
    <3> QED BY <2>2, <3>1, <3>2
  <2>6. \A p \in copies' : p \in copies
    BY <2>2
  <2> HIDE DEF g
  <2> QED BY <2>1, <2>3, <2>4, <2>5, <2>6, RoomToMove
<1>6. ASSUME NEW c \in Call, RefuseFolder(c) \/ RefuseFull(c) \/ List(c) \/ ListingFails(c)
      PROVE  RoomWasMeasured'
  <2>1. PICK from \in {"measured", "staged", "landed"}, to \in {"done", "failed"} :
          ImportStep(c, from, to)
    BY <1>6, ImportEnds
  <2>2. /\ copies' \subseteq copies /\ young' = young
        /\ old' = old \/ old' = [p \in Publication |-> 0]
        /\ young \in [Publication -> Nat] /\ old \in [Publication -> Nat]
    BY <1>6 DEF RefuseFolder, RefuseFull, List, ListingFails, sweep_staging, TypeOK, diskVars
  <2>3. \A p \in Publication : young'[p] + old'[p] <= young[p] + old[p]
    BY <2>2
  <2>4. \A d \in Call : \A at \in {"measured", "staged"} : Runs(d, "import", at)' =>
          /\ Runs(d, "import", at) /\ calls'[d].of = calls[d].of /\ calls'[d].used = calls[d].used
    BY <2>1 DEF ImportStep, Runs
  <2>5. old' \in [Publication -> Nat]
    BY <2>2
  <2>6. measure_imports' \in Nat /\ measure_imports' <= measure_imports
    BY <2>2, <2>3, <2>4, <2>5, NothingAdded
  <2> QED BY <2>4, <2>6, RoomStays
<1>7. ASSUME NEW c \in Call,
             FindEntry(c) \/ Forget(c) \/ ForgettingFails(c) \/ DeleteCopy(c) \/ remember(c)
      PROVE  RoomWasMeasured'
  <2>1. /\ calls[c].op # "import" /\ calls'[c].op # "import"
        /\ \A d \in Call : d # c => calls'[d] = calls[d]
    BY <1>7, RemovalGoesOn, OthersGoOn DEF RemovalStep
  <2>2. /\ copies' \subseteq copies /\ young' = young /\ old' = old
        /\ young \in [Publication -> Nat] /\ old \in [Publication -> Nat]
    BY <1>7 DEF FindEntry, Forget, ForgettingFails, DeleteCopy, remember, TypeOK, diskVars
  <2>3. \A p \in Publication : young'[p] + old'[p] <= young[p] + old[p]
    BY <2>2
  <2>4. \A d \in Call : \A at \in {"measured", "staged"} : Runs(d, "import", at)' =>
          /\ Runs(d, "import", at) /\ calls'[d].of = calls[d].of /\ calls'[d].used = calls[d].used
    BY <2>1 DEF Runs
  <2>5. measure_imports' \in Nat /\ measure_imports' <= measure_imports
    BY <2>2, <2>3, <2>4, NothingAdded
  <2> QED BY <2>4, <2>5, RoomStays
<1>8. CASE Die
  <2>1. /\ copies' = copies /\ old' = old
        /\ young' = [p \in Publication |-> young[p] + IF p \in Staged THEN 1 ELSE 0]
        /\ calls' = [c \in Call |-> Idle]
    BY <1>8 DEF Die
  <2>2. \A d \in Call : ~Holds(d)' /\ ~Runs(d, "import", "measured")' /\ ~Runs(d, "import", "staged")'
    BY <2>1 DEF Idle, Holds, Runs
  <2>3. ASSUME NEW c \in Call, Runs(c, "import", "staged") PROVE RoomWasMeasured'
    <3> DEFINE q == calls[c].of
               g == <<"left", q, young[q] + old[q] + 1>>
    <3>1. Staged = {q}
      BY <2>3, OneHolder DEF Staged, Runs, Holds
    <3>2. ASSUME NEW p \in Publication, NEW k \in 1 .. young'[p] + old'[p]
          PROVE  k \in 1 .. young[p] + old[p] \/ <<"left", p, k>> = g
      <4>1. young[p] \in Nat /\ old[p] \in Nat
        BY DEF TypeOK
      <4>2. young'[p] = young[p] \/ (p = q /\ young'[p] = young[p] + 1)
        BY <2>1, <3>1, <4>1
      <4> QED BY <2>1, <4>1, <4>2
    <3>3. g[2] = calls[c].of /\ <<"staged", calls[c].of, 1>> # g
      OBVIOUS
    <3> HIDE DEF g
    <3> QED BY <2>1, <2>2, <2>3, <3>2, <3>3, RoomToMove
  <2>4. CASE \A c \in Call : ~Runs(c, "import", "staged")
    <3>1. young' = young /\ young \in [Publication -> Nat] /\ old \in [Publication -> Nat]
      BY <2>1, <2>4 DEF Staged, TypeOK
    <3>2. \A p \in Publication : young'[p] + old'[p] <= young[p] + old[p]
      BY <2>1, <3>1
    <3>3. measure_imports' \in Nat /\ measure_imports' <= measure_imports
      BY <2>1, <2>2, <3>1, <3>2, NothingAdded
    <3> QED BY <2>2, <3>3, RoomStays
  <2> QED BY <2>3, <2>4
<1>9. CASE Age \/ Start
  <2>1. copies' = copies /\ calls' = calls
    BY <1>9 DEF Age, Start
  <2>2. /\ young' \in [Publication -> Nat] /\ old' \in [Publication -> Nat]
        /\ \A p \in Publication : young'[p] + old'[p] <= young[p] + old[p]
    BY <1>9 DEF Age, Start, sweep_staging, TypeOK
  <2>3. measure_imports' \in Nat /\ measure_imports' <= measure_imports
    BY <2>1, <2>2, NothingAdded DEF Runs
  <2> QED BY <2>1, <2>3, RoomStays DEF Runs
<1> QED
  BY <1>1, <1>2, <1>3, <1>4, <1>5, <1>6, <1>7, <1>8, <1>9, StepsAside
  DEF Next, Command, import_reserving, library_remove

-----------------------------------------------------------------------------
(* The memory, and what may be asked to go.                                *)

LEMMA MemoryStep ==
  ASSUME TypeOK, MemoryIsTheIndex, Next
  PROVE  MemoryIsTheIndex'
<1> USE DEF MemoryIsTheIndex
<1>1. CASE Editor
  BY <1>1 DEF Editor, beginImport, Dismiss, Choose, InspectionFails, closeImport, Inspected,
              confirmImport, ImportAnswered, RemoveAnswered, ListAnswered, RememberAnswered,
              removeFromLibrary, Remember, diskVars, closeVars
<1>2. ASSUME NEW c \in Call, Command(c) PROVE MemoryIsTheIndex'
  <2>1. calls[c] # Idle
    BY <1>2 DEF Command, Enter, import_reserving, Measure, RefuseFolder, RefuseFull, Stage,
                StagingFails, Land, List, ListingFails, library_remove, FindEntry, Forget,
                ForgettingFails, DeleteCopy, remember, library_list, Runs, Idle
  <2>2. window # "down" /\ memory = index
    BY <2>1
  <2>3. window' = window
    BY <1>2 DEF Command, Enter, import_reserving, Measure, RefuseFolder, RefuseFull, Stage,
                StagingFails, Land, List, ListingFails, End, library_remove, FindEntry, Forget,
                ForgettingFails, DeleteCopy, remember, library_list, closeVars
  <2>4. memory' = index'
    BY <1>2, <2>2 DEF Command, Enter, import_reserving, Measure, RefuseFolder, RefuseFull, Stage,
                StagingFails, Land, List, ListingFails, library_remove, FindEntry, Forget, Keep,
                ForgettingFails, DeleteCopy, remember, library_list, diskVars
  <2> QED BY <2>2, <2>3, <2>4
<1>3. CASE Window
  BY <1>3 DEF Window, CloseRequested, HearClose, CheckClose, SetClosing, CloseFails, diskVars
<1>4. CASE Die
  BY <1>4 DEF Die
<1>5. CASE Age \/ Start
  BY <1>5 DEF Age, Start, closeVars
<1> QED BY <1>1, <1>2, <1>3, <1>4, <1>5 DEF Next

LEMMA ImportsAskedStep ==
  ASSUME TypeOK, CopiesAreImports, Next
  PROVE  CopiesAreImports'
<1> USE DEF CopiesAreImports
<1>1. ASSUME NEW c \in Call, NEW call, calls' = [calls EXCEPT ![c] = call],
             call.op = "remove" => /\ call.copy => call.of \in Publication
                                   /\ call.at = "asked"
      PROVE  CopiesAreImports'
  BY <1>1 DEF TypeOK
<1>2. CASE Editor
  <2>1. CASE UNCHANGED calls
    BY <2>1
  <2>2. ASSUME NEW c \in Call,
               \/ confirmImport(c) \/ ImportAnswered(c) \/ RemoveAnswered(c)
               \/ ListAnswered(c) \/ RememberAnswered(c) \/ \E i \in Project : Remember(c, i)
        PROVE  CopiesAreImports'
    <3>1. \E call : calls' = [calls EXCEPT ![c] = call] /\ call.op # "remove"
      BY <2>2 DEF confirmImport, ImportAnswered, RemoveAnswered, ListAnswered, RememberAnswered,
                  Remember, Ask, Idle
    <3> QED BY <1>1, <3>1
  <2>3. ASSUME NEW c \in Call, NEW i, NEW copy, removeFromLibrary(c, i, copy)
        PROVE  CopiesAreImports'
    <3> DEFINE call == [op |-> "remove", of |-> i, copy |-> copy, at |-> "asked"]
    <3>1. calls' = [calls EXCEPT ![c] = call] /\ (copy => i \in Publication)
      BY <2>3 DEF removeFromLibrary, Ask
    <3> QED BY <1>1, <3>1
  <2> QED BY <1>2, <2>1, <2>2, <2>3
    DEF Editor, beginImport, Dismiss, Choose, InspectionFails, closeImport, Inspected
<1>3. ASSUME NEW c \in Call, Enter(c) \/ import_reserving(c) PROVE CopiesAreImports'
  <2>1. \E from, to : ImportStep(c, from, to)
    BY <1>3, ImportSteps DEF import_reserving
  <2> QED BY <2>1 DEF ImportStep
<1>4. ASSUME NEW c \in Call, library_remove(c) PROVE CopiesAreImports'
  <2>1. PICK from, to : RemovalStep(c, from, to) /\ (to = "forgotten" => calls[c].copy)
    <3>1. DeleteCopy(c) => \E to \in {"done", "failed"} : RemovalStep(c, "forgotten", to)
      BY RemovalSteps
    <3>2. Forget(c) => calls[c].copy \in BOOLEAN
      BY CommandFields DEF Forget, Runs
    <3> QED BY <1>4, <3>1, <3>2, RemovalSteps DEF library_remove
  <2> QED BY <2>1 DEF RemovalStep
<1>5. ASSUME NEW c \in Call, remember(c) \/ library_list(c) PROVE CopiesAreImports'
  <2>1. /\ calls'[c].op \in {"remember", "list"}
        /\ \A d \in Call : d # c => calls'[d] = calls[d]
    BY <1>5, OtherMoves DEF remember, library_list, Runs
  <2> QED BY <2>1
<1>6. CASE Window \/ Age \/ Start
  BY <1>6 DEF Window, CloseRequested, HearClose, CheckClose, SetClosing, CloseFails, Age, Start
<1>7. CASE Die
  BY <1>7 DEF Die, Idle
<1> QED BY <1>2, <1>3, <1>4, <1>5, <1>6, <1>7 DEF Next, Command

-----------------------------------------------------------------------------
(* The copies.                                                             *)

\* A step that takes nothing up and finishes nothing that matters to a copy.
Uneventful ==
  /\ UNCHANGED <<copies, stray, twice>>
  /\ \A p \in Publication : p \in index' <=> p \in index
  /\ \A c \in Call :
       \/ calls'[c] = calls[c]
       \/ /\ ~Removing(c)' /\ ~(calls[c].op = "remove" /\ calls[c].at = "forgotten")
          /\ ~(calls'[c].op = "import" /\ calls'[c].at \in {"staged", "landed"})
          /\ ~Runs(c, "import", "landed")

LEMMA CopiesUneventful ==
  ASSUME TypeOK, CopiesInv, CopiesAreImports', Uneventful
  PROVE  CopiesInv'
<1> USE DEF Uneventful, Removing, Removes, Runs
<1>1. copies \subseteq Publication
  BY DEF TypeOK
<1>2. RemovalHasCopy'
  BY DEF CopiesInv, RemovalHasCopy
<1>3. RemovalsMeet'
  BY DEF CopiesInv, RemovalsMeet
<1>4. ImportMeets'
  BY DEF CopiesInv, ImportMeets
<1>5. ForgottenIsUnlisted' /\ ImportIsUnlisted'
  <2>1. \A c \in Call : calls[c].op = "import" => calls[c].of \in Publication
    BY CommandFields
  <2> QED BY <2>1 DEF CopiesInv, ForgottenIsUnlisted, ImportIsUnlisted
<1>6. LandedIsThere'
  BY DEF CopiesInv, LandedIsThere
<1>7. ListedIsThere'
  BY DEF CopiesInv, ListedIsThere
<1>8. UnlistedIsBlamed'
  <2>1. ASSUME NEW p \in copies' \ index'
        PROVE  \/ p \in stray'
               \/ \E c \in Call : calls'[c] = calls[c] /\ Runs(c, "import", "landed") /\ calls[c].of = p
               \/ \E c \in Call : calls'[c] = calls[c] /\ Removes(c, p) /\ calls[c].at = "forgotten"
    <3>1. p \in copies \ index
      BY <1>1, <2>1
    <3> QED BY <3>1 DEF CopiesInv, UnlistedIsBlamed
  <2> QED BY <2>1 DEF UnlistedIsBlamed
<1> QED BY <1>2, <1>3, <1>4, <1>5, <1>6, <1>7, <1>8 DEF CopiesInv

LEMMA UneventfulSteps ==
  ASSUME TypeOK,
         \/ Aside
         \/ Age \/ Start
         \/ \E c \in Call : \/ Measure(c) \/ RefuseFolder(c) \/ RefuseFull(c) \/ StagingFails(c)
                            \/ ForgettingFails(c) \/ remember(c)
                            \/ FindEntry(c) /\ calls[c].of \notin memory,
         \A c \in Call : calls[c] # Idle => memory = index
  PROVE  Uneventful
<1> USE DEF Uneventful, Removing
<1>1. CASE Aside
  BY <1>1 DEF Aside, Holds, Runs
<1>2. CASE Age \/ Start
  BY <1>2 DEF Age, Start, boundVars
<1>3. ASSUME NEW c \in Call, Measure(c) \/ RefuseFolder(c) \/ RefuseFull(c) \/ StagingFails(c)
      PROVE  Uneventful
  <2>1. \E from \in {"flagged", "measured", "staged"}, to \in {"measured", "failed"} :
          ImportStep(c, from, to)
    BY <1>3, ImportSteps
  <2>2. UNCHANGED <<copies, stray, twice, index>>
    BY <1>3 DEF Measure, RefuseFolder, RefuseFull, StagingFails, End, diskVars, boundVars
  <2> QED BY <2>1, <2>2 DEF ImportStep, Runs
<1>4. ASSUME NEW c \in Call, ForgettingFails(c) PROVE Uneventful
  <2>1. RemovalStep(c, "found", "failed")
    BY <1>4, RemovalSteps
  <2>2. UNCHANGED <<copies, stray, twice, index>>
    BY <1>4 DEF ForgettingFails, diskVars, boundVars
  <2> QED BY <2>1, <2>2 DEF RemovalStep, Runs
<1>5. ASSUME NEW c \in Call, remember(c) PROVE Uneventful
  <2>1. /\ calls[c].op = "remember" /\ calls'[c].op = "remember" /\ calls[c].of \notin Publication
        /\ \A d \in Call : d # c => calls'[d] = calls[d]
    BY <1>5, OthersGoOn, CommandFields, LibraryAssumption
  <2>2. UNCHANGED <<copies, stray, twice>>
    BY <1>5 DEF remember, boundVars
  <2>3. memory = index
    BY <2>1 DEF Idle
  <2>4. index' = index \cup {calls[c].of} \/ index' = index
    BY <1>5, <2>3 DEF remember, Keep
  <2> QED BY <2>1, <2>2, <2>4 DEF Runs
<1>6. ASSUME NEW c \in Call, FindEntry(c), calls[c].of \notin memory PROVE Uneventful
  <2>1. RemovalStep(c, "asked", "done")
    BY <1>6, RemovalSteps
  <2>2. UNCHANGED <<copies, stray, twice, index>>
    BY <1>6 DEF FindEntry, diskVars
  <2> QED BY <2>1, <2>2 DEF RemovalStep, Runs
<1> QED BY <1>1, <1>2, <1>3, <1>4, <1>5, <1>6

\* An import writes its folder: only if there was no copy, so a removal that has one
\* to delete must have met another.
LEMMA CopiesStaged ==
  ASSUME TypeOK, CopiesInv, NEW c \in Call, Stage(c)
  PROVE  RemovalHasCopy' /\ RemovalsMeet' /\ ImportMeets' /\ ForgottenIsUnlisted'
         /\ ImportIsUnlisted' /\ LandedIsThere' /\ ListedIsThere' /\ UnlistedIsBlamed'
<1> USE DEF Removes, Runs
<1>1. ImportStep(c, "measured", "staged")
  BY ImportSteps
<1>2. UNCHANGED <<index, copies, stray, twice>> /\ calls[c].of \notin copies
  BY DEF Stage, boundVars
<1>3. RemovalHasCopy' /\ RemovalsMeet' /\ ForgottenIsUnlisted'
  BY <1>1, <1>2 DEF ImportStep, CopiesInv, RemovalHasCopy, RemovalsMeet, ForgottenIsUnlisted
<1>4. ImportMeets'
  BY <1>1, <1>2 DEF ImportStep, CopiesInv, RemovalHasCopy, ImportMeets
<1>5. LandedIsThere' /\ ListedIsThere'
  BY <1>1, <1>2 DEF ImportStep, CopiesInv, LandedIsThere, ListedIsThere
<1>6. UnlistedIsBlamed'
  BY <1>1, <1>2 DEF ImportStep, CopiesInv, UnlistedIsBlamed
<1>7. ImportIsUnlisted'
  BY <1>1, <1>2 DEF ImportStep, CopiesInv, ImportIsUnlisted, ListedIsThere
<1> QED BY <1>3, <1>4, <1>5, <1>6, <1>7

LEMMA CopiesLanded ==
  ASSUME TypeOK, CopiesInv, NEW c \in Call, Land(c)
  PROVE  RemovalHasCopy' /\ RemovalsMeet' /\ ImportMeets' /\ ForgottenIsUnlisted'
         /\ ImportIsUnlisted' /\ LandedIsThere' /\ ListedIsThere' /\ UnlistedIsBlamed'
<1> USE DEF Removes, Runs
<1>1. ImportStep(c, "staged", "landed")
  BY ImportSteps
<1>2. UNCHANGED <<index, stray, twice>> /\ copies' = copies \cup {calls[c].of}
  BY DEF Land, boundVars
<1>3. RemovalHasCopy' /\ RemovalsMeet' /\ ForgottenIsUnlisted'
  BY <1>1, <1>2 DEF ImportStep, CopiesInv, RemovalHasCopy, RemovalsMeet, ForgottenIsUnlisted
<1>4. ImportMeets'
  BY <1>1, <1>2 DEF ImportStep, CopiesInv, ImportMeets
<1>5. LandedIsThere' /\ ListedIsThere'
  BY <1>1, <1>2 DEF ImportStep, CopiesInv, LandedIsThere, ListedIsThere
<1>6. UnlistedIsBlamed'
  BY <1>1, <1>2 DEF ImportStep, CopiesInv, UnlistedIsBlamed
<1>7. ImportIsUnlisted'
  BY <1>1, <1>2 DEF ImportStep, CopiesInv, ImportIsUnlisted, ListedIsThere
<1> QED BY <1>3, <1>4, <1>5, <1>6, <1>7

\* An import is listed: what is there by then, or what two removals fought over.
LEMMA CopiesListed ==
  ASSUME TypeOK, CopiesInv, LockIsHeld, memory = index, NEW c \in Call, List(c)
  PROVE  RemovalHasCopy' /\ RemovalsMeet' /\ ImportMeets' /\ ForgottenIsUnlisted'
         /\ ImportIsUnlisted' /\ LandedIsThere' /\ ListedIsThere' /\ UnlistedIsBlamed'
<1> USE DEF Removes, Runs
<1>1. ImportStep(c, "landed", "done")
  BY ImportSteps
<1>2. /\ UNCHANGED <<copies, twice>> /\ index' = index \cup {calls[c].of}
      /\ stray' = stray \ {calls[c].of}
  BY DEF List, Keep, End
<1>3. RemovalHasCopy' /\ RemovalsMeet'
  BY <1>1, <1>2 DEF ImportStep, CopiesInv, RemovalHasCopy, RemovalsMeet
<1>4. ForgottenIsUnlisted'
  BY <1>1, <1>2 DEF ImportStep, CopiesInv, ForgottenIsUnlisted, ImportMeets
<1>5. ImportMeets'
  BY <1>1, <1>2 DEF ImportStep, CopiesInv, ImportMeets
<1>6. LandedIsThere' /\ ListedIsThere'
  BY <1>1, <1>2 DEF ImportStep, CopiesInv, LandedIsThere, ListedIsThere
<1>7. UnlistedIsBlamed'
  BY <1>1, <1>2 DEF ImportStep, CopiesInv, UnlistedIsBlamed
<1>8. ImportIsUnlisted'
  BY <1>1, <1>2, OneHolder DEF ImportStep, CopiesInv, ImportIsUnlisted, Holds
<1> QED BY <1>3, <1>4, <1>5, <1>6, <1>7, <1>8

\* Or its copy goes back.
LEMMA CopiesUnlisted ==
  ASSUME TypeOK, LockIsHeld, CopiesInv, NEW c \in Call, ListingFails(c)
  PROVE  RemovalHasCopy' /\ RemovalsMeet' /\ ImportMeets' /\ ForgottenIsUnlisted'
         /\ ImportIsUnlisted' /\ LandedIsThere' /\ ListedIsThere' /\ UnlistedIsBlamed'
<1> USE DEF Removes, Runs
<1>1. ImportStep(c, "landed", "failed")
  BY ImportSteps
<1>2. /\ UNCHANGED <<index, twice>>
      /\ \/ copies' = copies \ {calls[c].of} /\ stray' = stray
         \/ copies' = copies /\ stray' = stray \cup {calls[c].of}
  BY DEF ListingFails, End
<1>3. RemovalHasCopy'
  BY <1>1, <1>2 DEF ImportStep, CopiesInv, RemovalHasCopy, ImportMeets
<1>4. RemovalsMeet' /\ ForgottenIsUnlisted' /\ ImportMeets'
  BY <1>1, <1>2 DEF ImportStep, CopiesInv, RemovalsMeet, ForgottenIsUnlisted, ImportMeets
<1>5. LandedIsThere'
  BY <1>1, <1>2, OneHolder DEF ImportStep, LandedIsThere, Holds
<1>6. UnlistedIsBlamed'
  BY <1>1, <1>2 DEF ImportStep, CopiesInv, UnlistedIsBlamed
<1>7. ListedIsThere'
  BY <1>1, <1>2 DEF ImportStep, CopiesInv, ListedIsThere, ImportIsUnlisted
<1>8. ImportIsUnlisted'
  BY <1>1, <1>2, OneHolder DEF ImportStep, CopiesInv, ImportIsUnlisted, Holds
<1> QED BY <1>3, <1>4, <1>5, <1>6, <1>7, <1>8

\* A removal finds its entry while nobody imports; one that is at it already is met.
LEMMA CopiesFound ==
  ASSUME TypeOK, LockIsHeld, CopiesInv, memory = index, NEW c \in Call,
         FindEntry(c), calls[c].of \in memory
  PROVE  RemovalHasCopy' /\ RemovalsMeet' /\ ImportMeets' /\ ForgottenIsUnlisted'
         /\ ImportIsUnlisted' /\ LandedIsThere' /\ ListedIsThere' /\ UnlistedIsBlamed'
<1> USE DEF Removes, Runs
<1>1. RemovalStep(c, "asked", "found")
  BY RemovalSteps
<1>2. /\ UNCHANGED <<index, copies, stray>> /\ twice \subseteq twice'
      /\ calls[c].copy /\ (\E d \in Call : Removes(d, calls[c].of)) => calls[c].of \in twice'
  BY DEF FindEntry, diskVars
<1>3. \A d \in Call : ~Holds(d)
  BY OneHolder DEF FindEntry
<1>4. RemovalHasCopy'
  BY <1>1, <1>2 DEF RemovalStep, CopiesInv, RemovalHasCopy, ListedIsThere
<1>5. RemovalsMeet'
  BY <1>1, <1>2 DEF RemovalStep, CopiesInv, RemovalsMeet
<1>6. ImportMeets' /\ ImportIsUnlisted' /\ LandedIsThere'
  BY <1>1, <1>3 DEF RemovalStep, ImportMeets, ImportIsUnlisted, LandedIsThere, Holds
<1>7. ForgottenIsUnlisted'
  BY <1>1, <1>2 DEF RemovalStep, CopiesInv, ForgottenIsUnlisted
<1>8. ListedIsThere'
  BY <1>2 DEF CopiesInv, ListedIsThere
<1>9. UnlistedIsBlamed'
  BY <1>1, <1>2 DEF RemovalStep, CopiesInv, UnlistedIsBlamed
<1> QED BY <1>4, <1>5, <1>6, <1>7, <1>8, <1>9

\* A removal forgets its entry, and keeps its copy or has it still to delete.
LEMMA CopiesForgotten ==
  ASSUME TypeOK, CopiesInv, memory = index, NEW c \in Call, Forget(c)
  PROVE  RemovalHasCopy' /\ RemovalsMeet' /\ ImportMeets' /\ ForgottenIsUnlisted'
         /\ ImportIsUnlisted' /\ LandedIsThere' /\ ListedIsThere' /\ UnlistedIsBlamed'
<1> USE DEF Removes, Runs
<1>1. \/ calls[c].copy /\ RemovalStep(c, "found", "forgotten")
      \/ ~calls[c].copy /\ RemovalStep(c, "found", "done")
  BY RemovalSteps, CommandFields DEF Forget
<1>2. /\ UNCHANGED <<copies, twice>> /\ index' = index \ {calls[c].of}
      /\ stray' = IF calls[c].copy THEN stray ELSE stray \cup ({calls[c].of} \cap copies)
  BY DEF Forget, Keep
<1>3. RemovalHasCopy' /\ RemovalsMeet'
  BY <1>1, <1>2 DEF RemovalStep, CopiesInv, RemovalHasCopy, RemovalsMeet
<1>4. ForgottenIsUnlisted' /\ ImportIsUnlisted'
  BY <1>1, <1>2 DEF RemovalStep, CopiesInv, ForgottenIsUnlisted, ImportIsUnlisted
<1>5. ImportMeets' /\ LandedIsThere'
  BY <1>1, <1>2 DEF RemovalStep, CopiesInv, ImportMeets, LandedIsThere
<1>6. ListedIsThere'
  BY <1>2 DEF CopiesInv, ListedIsThere
<1>7. UnlistedIsBlamed'
  BY <1>1, <1>2 DEF RemovalStep, CopiesInv, UnlistedIsBlamed
<1> QED BY <1>3, <1>4, <1>5, <1>6, <1>7

\* A copy is deleted outside the lock: whoever else counts on it has met this removal.
LEMMA CopiesDeleted ==
  ASSUME TypeOK, CopiesInv, NEW c \in Call, DeleteCopy(c)
  PROVE  RemovalHasCopy' /\ RemovalsMeet' /\ ImportMeets' /\ ForgottenIsUnlisted'
         /\ ImportIsUnlisted' /\ LandedIsThere' /\ ListedIsThere' /\ UnlistedIsBlamed'
<1> USE DEF Removes, Runs
<1> DEFINE q == calls[c].of
<1>1. RemovalStep(c, "forgotten", "done") \/ RemovalStep(c, "forgotten", "failed")
  BY RemovalSteps
<1>2. /\ UNCHANGED <<index, twice>>
      /\ \/ copies' = copies \ {q} /\ stray' = stray \ {q}
         \/ q \in copies /\ copies' = copies /\ stray' = stray \cup {q}
  BY DEF DeleteCopy
<1>3. CASE copies' = copies /\ stray' = stray \cup {q}
  <2>1. RemovalHasCopy' /\ RemovalsMeet'
    BY <1>1, <1>2, <1>3 DEF RemovalStep, CopiesInv, RemovalHasCopy, RemovalsMeet
  <2>2. ForgottenIsUnlisted' /\ ImportIsUnlisted'
    BY <1>1, <1>2 DEF RemovalStep, CopiesInv, ForgottenIsUnlisted, ImportIsUnlisted
  <2>3. ImportMeets' /\ LandedIsThere'
    BY <1>1, <1>2, <1>3 DEF RemovalStep, CopiesInv, ImportMeets, LandedIsThere
  <2>4. ListedIsThere'
    BY <1>2, <1>3 DEF CopiesInv, ListedIsThere
  <2>5. UnlistedIsBlamed'
    BY <1>1, <1>2, <1>3 DEF RemovalStep, CopiesInv, UnlistedIsBlamed
  <2> QED BY <2>1, <2>2, <2>3, <2>4, <2>5
<1>4. CASE copies' = copies \ {q} /\ stray' = stray \ {q}
  <2>1. q \in Publication => Removes(c, q) /\ calls[c].at = "forgotten"
    BY <1>1 DEF RemovalStep, CopiesInv, CopiesAreImports
  <2>2. RemovalHasCopy'
    BY <1>1, <1>2, <1>4, <2>1 DEF RemovalStep, CopiesInv, RemovalHasCopy, RemovalsMeet
  <2>3. RemovalsMeet'
    BY <1>1, <1>2 DEF RemovalStep, CopiesInv, RemovalsMeet
  <2>4. ForgottenIsUnlisted' /\ ImportIsUnlisted'
    BY <1>1, <1>2 DEF RemovalStep, CopiesInv, ForgottenIsUnlisted, ImportIsUnlisted
  <2>5. ImportMeets'
    BY <1>1, <1>2 DEF RemovalStep, CopiesInv, ImportMeets
  <2>6. LandedIsThere'
    BY <1>1, <1>2, <1>4, <2>1, CommandFields DEF RemovalStep, CopiesInv, LandedIsThere, ImportMeets
  <2>7. ListedIsThere'
    BY <1>2, <1>4, <2>1 DEF CopiesInv, ListedIsThere, ForgottenIsUnlisted
  <2>8. UnlistedIsBlamed'
    BY <1>1, <1>2, <1>4 DEF RemovalStep, CopiesInv, UnlistedIsBlamed
  <2> QED BY <2>2, <2>3, <2>4, <2>5, <2>6, <2>7, <2>8
<1> QED BY <1>2, <1>3, <1>4

LEMMA CopiesAfterDeath ==
  ASSUME TypeOK, CopiesInv, Die
  PROVE  RemovalHasCopy' /\ RemovalsMeet' /\ ImportMeets' /\ ForgottenIsUnlisted'
         /\ ImportIsUnlisted' /\ LandedIsThere' /\ ListedIsThere' /\ UnlistedIsBlamed'
<1>1. /\ UNCHANGED <<index, copies, twice>> /\ stray' = stray \cup (copies \ index)
      /\ \A c \in Call : calls'[c].op = "none"
  BY DEF Die, Idle
<1> QED BY <1>1 DEF RemovalHasCopy, RemovalsMeet, ImportMeets, ForgottenIsUnlisted, ImportIsUnlisted,
                    LandedIsThere, ListedIsThere, UnlistedIsBlamed, Removes, Runs, CopiesInv

LEMMA CopiesStep ==
  ASSUME TypeOK, LockIsHeld, MemoryIsTheIndex, CopiesInv, Next
  PROVE  CopiesInv'
<1>1. CopiesAreImports'
  BY ImportsAskedStep DEF CopiesInv
<1>2. \A c \in Call : calls[c] # Idle => memory = index
  BY DEF MemoryIsTheIndex
<1>3. CASE \/ Editor \/ Window \/ Age \/ Start
           \/ \E c \in Call : \/ Enter(c) \/ library_list(c)
                              \/ Measure(c) \/ RefuseFolder(c) \/ RefuseFull(c) \/ StagingFails(c)
                              \/ ForgettingFails(c) \/ remember(c)
                              \/ FindEntry(c) /\ calls[c].of \notin memory
  <2>1. Uneventful
    BY <1>2, <1>3, StepsAside, UneventfulSteps
  <2> QED BY <1>1, <2>1, CopiesUneventful
<1>4. ASSUME NEW c \in Call,
             \/ Stage(c) \/ Land(c) \/ List(c) \/ ListingFails(c) \/ Forget(c) \/ DeleteCopy(c)
             \/ FindEntry(c) /\ calls[c].of \in memory
      PROVE  CopiesInv'
  <2>1. memory = index
    BY <1>2, <1>4 DEF Stage, Land, List, ListingFails, Forget, DeleteCopy, FindEntry, Runs, Idle
  <2> QED BY <1>1, <1>4, <2>1, CopiesStaged, CopiesLanded, CopiesListed, CopiesUnlisted,
             CopiesFound, CopiesForgotten, CopiesDeleted DEF CopiesInv
<1>5. CASE Die
  BY <1>1, <1>5, CopiesAfterDeath DEF CopiesInv
<1> QED BY <1>3, <1>4, <1>5 DEF Next, Command, import_reserving, library_remove

-----------------------------------------------------------------------------
(* The dialog.                                                             *)

\* The commands stay what they are, unless the editor gives one or hears of one.
LEMMA CommandsStay ==
  ASSUME TypeOK, NEW c \in Call, Command(c)
  PROVE  /\ \A d \in Call : calls'[d].op = calls[d].op
         /\ UNCHANGED editorVars
<1>1. CASE Enter(c) \/ import_reserving(c)
  <2>1. \E from, to : ImportStep(c, from, to)
    BY <1>1, ImportSteps DEF import_reserving
  <2>2. UNCHANGED editorVars
    BY <1>1 DEF Enter, import_reserving, Measure, RefuseFolder, RefuseFull, Stage, StagingFails,
                Land, List, ListingFails, End
  <2> QED BY <2>1, <2>2 DEF ImportStep
<1>2. CASE library_remove(c)
  BY <1>2, RemovalGoesOn DEF library_remove, RemovalStep
<1>3. CASE remember(c) \/ library_list(c)
  BY <1>3, OtherMoves DEF remember, library_list, Runs
<1> QED BY <1>1, <1>2, <1>3 DEF Command

\* A command given and a command heard of, as the dialog counts them.
LEMMA ImportGiven ==
  ASSUME TypeOK, NEW c \in Call, NEW call, calls' = [calls EXCEPT ![c] = call]
  PROVE  /\ calls'[c].op = call.op
         /\ \A d \in Call : d # c => calls'[d].op = calls[d].op
BY DEF TypeOK

LEMMA ImportAsked ==
  ASSUME TypeOK, NEW c \in Call, confirmImport(c)
  PROVE  /\ calls[c].op = "none" /\ calls'[c].op = "import"
         /\ \A d \in Call : d # c => calls'[d].op = calls[d].op
<1> DEFINE call == [op |-> "import", of |-> dialog.of, late |-> FALSE, used |-> 0, at |-> "asked"]
<1>1. calls' = [calls EXCEPT ![c] = call] /\ call.op = "import"
  BY DEF confirmImport, Ask
<1>2. calls[c].op = "none"
  BY DEF confirmImport, Ask, Idle
<1> QED BY <1>1, <1>2, ImportGiven

LEMMA AnswerHeard ==
  ASSUME TypeOK, NEW c \in Call,
         ImportAnswered(c) \/ RemoveAnswered(c) \/ ListAnswered(c) \/ RememberAnswered(c)
  PROVE  /\ calls'[c].op # "import"
         /\ \A d \in Call : d # c => calls'[d].op = calls[d].op
<1> DEFINE after(what) == [op |-> "list", after |-> what, at |-> "asked"]
<1>1. \/ calls' = [calls EXCEPT ![c] = after("import")]
      \/ calls' = [calls EXCEPT ![c] = after("remove")]
      \/ calls' = [calls EXCEPT ![c] = Idle]
  BY DEF ImportAnswered, RemoveAnswered, ListAnswered, RememberAnswered
<1>2. \A what : after(what).op = "list"
  OBVIOUS
<1>3. Idle.op = "none"
  BY DEF Idle
<1> HIDE DEF after
<1> QED BY <1>1, <1>2, <1>3, ImportGiven

LEMMA DialogStep ==
  ASSUME TypeOK, DialogWaits, Next
  PROVE  DialogWaits'
<1> USE DEF transition, Legal, Leads, Phase, Busy
<1>1. /\ waiting \in [{"chooser", "inspection"} -> Nat] /\ dialog.phase \in Phase
      /\ dialog \in [phase : Phase, of : Publication \cup {None}]
  BY DEF TypeOK
<1>2. CASE beginImport \/ Dismiss \/ Choose \/ InspectionFails \/ closeImport
  <2>1. UNCHANGED calls
    BY <1>2 DEF beginImport, Dismiss, Choose, InspectionFails, closeImport
  <2>2. CASE beginImport
    BY <1>1, <2>1, <2>2 DEF beginImport, Settle, SetImport, DialogWaits
  <2>3. CASE Dismiss
    BY <1>1, <2>1, <2>3 DEF Dismiss, Settle, SetImport, DialogWaits
  <2>4. CASE Choose
    BY <1>1, <2>1, <2>4 DEF Choose, Settle, SetImport, DialogWaits
  <2>5. CASE InspectionFails
    BY <1>1, <2>1, <2>5 DEF InspectionFails, Settle, SetImport, DialogWaits
  <2>6. CASE closeImport
    BY <1>1, <2>1, <2>6 DEF closeImport, DialogWaits
  <2> QED BY <1>2, <2>2, <2>3, <2>4, <2>5, <2>6
<1>3. ASSUME NEW p \in Publication, Inspected(p) PROVE DialogWaits'
  BY <1>1, <1>3 DEF Inspected, SetImport, DialogWaits
<1>4. ASSUME NEW c \in Call, confirmImport(c) PROVE DialogWaits'
  <2>1. /\ calls[c].op = "none" /\ calls'[c].op = "import"
        /\ \A d \in Call : d # c => calls'[d].op = calls[d].op
    BY <1>4, ImportAsked
  <2>2. /\ dialog.phase = "inspected" /\ dialog'.phase = "importing" /\ dialog'.of = dialog.of
        /\ UNCHANGED waiting
    BY <1>4 DEF confirmImport, Settle, SetImport
  <2> QED BY <2>1, <2>2 DEF DialogWaits
<1>5. ASSUME NEW c \in Call, ImportAnswered(c) PROVE DialogWaits'
  <2>1. calls[c].op = "import"
    BY <1>5 DEF ImportAnswered, Runs
  <2>2. /\ calls'[c].op # "import"
        /\ \A d \in Call : d # c => calls'[d].op = calls[d].op
    BY <1>5, AnswerHeard
  <2>3. dialog.phase = "importing" /\ dialog'.phase \in {"imported", "error"} /\ UNCHANGED waiting
    BY <1>5, <2>1 DEF ImportAnswered, Settle, SetImport, DialogWaits
  <2> QED BY <2>1, <2>2, <2>3 DEF DialogWaits
<1>6. ASSUME NEW c \in Call, RemoveAnswered(c) \/ ListAnswered(c) \/ RememberAnswered(c)
      PROVE  DialogWaits'
  <2>1. calls[c].op # "import"
    BY <1>6 DEF RemoveAnswered, ListAnswered, RememberAnswered, Runs
  <2>2. /\ calls'[c].op # "import"
        /\ \A d \in Call : d # c => calls'[d].op = calls[d].op
    BY <1>6, AnswerHeard
  <2>3. Settle("acknowledge") \/ UNCHANGED dialog
    BY <1>6, Zenon DEF RemoveAnswered, ListAnswered, RememberAnswered
  <2>4. /\ dialog'.of = dialog.of
        /\ dialog'.phase = dialog.phase \/ (dialog.phase \notin Busy /\ dialog'.phase = "idle")
    BY <1>1, <2>3 DEF Settle, SetImport
  <2>5. UNCHANGED waiting
    BY <1>6 DEF RemoveAnswered, ListAnswered, RememberAnswered
  <2> QED BY <2>1, <2>2, <2>4, <2>5 DEF DialogWaits
<1>7. ASSUME NEW c \in Call,
             \/ \E i \in Publication \cup Project, copy \in BOOLEAN : removeFromLibrary(c, i, copy)
             \/ \E i \in Project : Remember(c, i)
      PROVE  DialogWaits'
  <2>1. /\ calls[c].op # "import" /\ calls'[c].op # "import"
        /\ \A d \in Call : d # c => calls'[d].op = calls[d].op
    BY <1>7, ImportGiven DEF removeFromLibrary, Remember, Ask, Idle
  <2>2. UNCHANGED <<dialog, waiting>>
    BY <1>7 DEF removeFromLibrary, Remember
  <2> QED BY <2>1, <2>2 DEF DialogWaits
<1>8. ASSUME NEW c \in Call, Command(c) PROVE DialogWaits'
  BY <1>8, CommandsStay DEF DialogWaits, editorVars
<1>9. CASE Window \/ Age \/ Start
  BY <1>9 DEF Window, CloseRequested, HearClose, CheckClose, SetClosing, CloseFails, Age, Start,
              DialogWaits, editorVars
<1>10. CASE Die
  BY <1>10 DEF Die, Idle, DialogWaits
<1> QED BY <1>2, <1>3, <1>4, <1>5, <1>6, <1>7, <1>8, <1>9, <1>10 DEF Next, Editor

-----------------------------------------------------------------------------
(* Closing.                                                                *)

LEMMA ClosingStep ==
  ASSUME TypeOK, DialogWaits, ClosingInv, Next
  PROVE  ClosingInv'
<1> USE DEF ClosingInv, FlagIsUp, LateIsKnown, Imports
<1>1. CASE Editor
  <2>1. UNCHANGED <<importing, closer, window>>
    BY <1>1 DEF Editor, beginImport, Dismiss, Choose, InspectionFails, closeImport, Inspected,
                confirmImport, ImportAnswered, RemoveAnswered, ListAnswered, RememberAnswered,
                removeFromLibrary, Remember, closeVars
  <2>2. CASE UNCHANGED calls
    BY <2>1, <2>2
  <2>3. ASSUME NEW c \in Call, NEW call, calls' = [calls EXCEPT ![c] = call],
               call.op = "import" => call.at = "asked"
        PROVE  ClosingInv'
    <3>1. calls'[c] = call /\ \A d \in Call : d # c => calls'[d] = calls[d]
      BY <2>3 DEF TypeOK
    <3> QED BY <2>1, <2>3, <3>1
  <2>4. ASSUME NEW c \in Call,
               \/ confirmImport(c) \/ ImportAnswered(c) \/ RemoveAnswered(c)
               \/ ListAnswered(c) \/ RememberAnswered(c)
               \/ \E i \in Publication \cup Project, copy \in BOOLEAN : removeFromLibrary(c, i, copy)
               \/ \E i \in Project : Remember(c, i)
        PROVE  ClosingInv'
    <3>1. \E call : calls' = [calls EXCEPT ![c] = call] /\ (call.op = "import" => call.at = "asked")
      BY <2>4 DEF confirmImport, ImportAnswered, RemoveAnswered, ListAnswered, RememberAnswered,
                  removeFromLibrary, Remember, Ask, Idle
    <3> QED BY <2>3, <3>1
  <2> QED BY <1>1, <2>2, <2>4
    DEF Editor, beginImport, Dismiss, Choose, InspectionFails, closeImport, Inspected
<1>2. ASSUME NEW c \in Call, Enter(c) PROVE ClosingInv'
  <2>1. calls[c].op = "import" /\ calls[c].used \in Nat
    BY <1>2, CommandFields DEF Enter, Runs
  <2> DEFINE late == closer \in {"checked", "closing"} \/ window = "gone"
             m == [calls[c] EXCEPT !.at = "flagged", !.late = late]
  <2>2. calls' = [calls EXCEPT ![c] = m]
    BY <1>2 DEF Enter
  <2>3. m.late = late
    <3>1. calls[c] \in [op : {"import"}, of : Publication, late : BOOLEAN, used : Nat,
            at : {"asked", "flagged", "measured", "staged", "landed", "done", "failed"}]
      BY <2>1 DEF TypeOK, Ops
    <3> HIDE DEF late
    <3> QED BY <3>1
  <2> HIDE DEF m
  <2>4. calls'[c].late = late /\ \A d \in Call : d # c => calls'[d] = calls[d]
    BY <2>2, <2>3 DEF TypeOK
  <2>5. importing' = TRUE /\ UNCHANGED <<closer, window>>
    BY <1>2 DEF Enter, closeVars
  <2> QED BY <2>4, <2>5
<1>3. ASSUME NEW c \in Call, Measure(c) \/ Stage(c) \/ Land(c) PROVE ClosingInv'
  <2>1. PICK from, to : from \in {"flagged", "measured", "staged"} /\ ImportStep(c, from, to)
    BY <1>3, ImportSteps
  <2>2. UNCHANGED <<importing, closer, window>>
    BY <1>3 DEF Measure, Stage, Land, closeVars
  <2> QED BY <2>1, <2>2 DEF ImportStep
<1>4. ASSUME NEW c \in Call,
             RefuseFolder(c) \/ RefuseFull(c) \/ StagingFails(c) \/ List(c) \/ ListingFails(c)
      PROVE  ClosingInv'
  <2>1. PICK from \in {"measured", "staged", "landed"}, to \in {"done", "failed"} :
          ImportStep(c, from, to)
    BY <1>4, ImportEnds
  <2>2. \A d \in Call : ~Imports(d)'
    <3>1. \A d \in Call : d # c => calls[d].op # "import"
      BY <2>1 DEF ImportStep, DialogWaits
    <3> QED BY <2>1, <3>1 DEF ImportStep
  <2> QED BY <2>2
<1>5. ASSUME NEW c \in Call, library_remove(c) PROVE ClosingInv'
  BY <1>5, RemovalGoesOn DEF library_remove, RemovalStep, closeVars
<1>6. ASSUME NEW c \in Call, remember(c) \/ library_list(c) PROVE ClosingInv'
  <2>1. /\ calls'[c].op # "import" /\ \A d \in Call : d # c => calls'[d] = calls[d]
    BY <1>6, OtherMoves DEF remember, library_list, Runs
  <2>2. UNCHANGED <<importing, closer, window>>
    BY <1>6 DEF remember, library_list, closeVars
  <2> QED BY <2>1, <2>2
<1>7. CASE Window
  BY <1>7 DEF Window, CloseRequested, mayClose, HearClose, CheckClose, SetClosing, CloseFails
<1>8. CASE Die
  BY <1>8 DEF Die, Idle
<1>9. CASE Age \/ Start
  BY <1>9 DEF Age, Start, closeVars
<1> QED BY <1>1, <1>2, <1>3, <1>4, <1>5, <1>6, <1>7, <1>8, <1>9
  DEF Next, Command, import_reserving

-----------------------------------------------------------------------------
(***************************************************************************)
(* The theorems.                                                           *)
(***************************************************************************)

\* The program is started for the first time with an empty library.
LEMMA InitInvariant == Init => LibraryInv
<1> SUFFICES ASSUME Init PROVE LibraryInv
  OBVIOUS
<1>1. TypeOK
  <2>1. calls \in [Call -> Ops]
    BY DEF Init, Ops, Idle
  <2>2. /\ dialog \in [phase : Phase, of : Publication \cup {None}]
        /\ waiting \in [{"chooser", "inspection"} -> Nat]
    BY DEF Init, Phase
  <2> QED BY <2>1, <2>2 DEF Init, TypeOK
<1>2. \A c \in Call : calls[c] = Idle /\ calls[c].op = "none"
  BY DEF Init, Idle
<1>3. LockIsHeld /\ MemoryIsTheIndex
  BY <1>2, LibraryAssumption DEF Init, LockIsHeld, MemoryIsTheIndex, Holds
<1>4. RoomWasMeasured
  <2>1. Folders = {}
    <3>1. Staged = {}
      BY <1>2 DEF Staged, Runs
    <3>2. Left = {}
      BY DEF Init, Left
    <3> QED BY <3>1, <3>2 DEF Init, Folders
  <2>2. Bytes(Folders) = {}
    BY <2>1 DEF Bytes
  <2>3. measure_imports = 0
    BY <2>2, FS_EmptySet DEF measure_imports
  <2> QED BY <1>2, <2>3, LibraryAssumption DEF RoomWasMeasured, WithinCeiling, Runs
<1>5. CopiesInv
  BY <1>2 DEF Init, CopiesInv, CopiesAreImports, RemovalHasCopy, RemovalsMeet, ImportMeets,
              ImportIsUnlisted, ForgottenIsUnlisted, LandedIsThere, ListedIsThere, UnlistedIsBlamed,
              Removes, Runs
<1>6. ClosingInv
  BY <1>2 DEF ClosingInv, FlagIsUp, LateIsKnown, Imports
<1>7. DialogWaits
  BY <1>2 DEF Init, DialogWaits
<1> QED BY <1>1, <1>3, <1>4, <1>5, <1>6, <1>7 DEF LibraryInv

LEMMA StepInvariant == LibraryInv /\ [Next]_vars => LibraryInv'
<1> SUFFICES ASSUME LibraryInv, [Next]_vars PROVE LibraryInv'
  OBVIOUS
<1> USE DEF LibraryInv
<1>1. CASE Next
  <2>1. TypeOK'
    BY <1>1, EditorTyped, EditorCallsTyped, CommandTyped, WindowTyped DEF Next, Editor, CopiesInv
  <2>2. LockIsHeld' /\ MemoryIsTheIndex' /\ RoomWasMeasured'
    BY <1>1, LockStep, MemoryStep, RoomStep
  <2>3. CopiesInv' /\ ClosingInv' /\ DialogWaits'
    BY <1>1, CopiesStep, ClosingStep, DialogStep
  <2> QED BY <2>1, <2>2, <2>3
<1>2. CASE UNCHANGED vars
  <2> USE <1>2 DEF vars, diskVars, editorVars, closeVars, boundVars
  <2>1. TypeOK'
    BY DEF TypeOK
  <2>2. LockIsHeld' /\ MemoryIsTheIndex'
    BY DEF LockIsHeld, MemoryIsTheIndex, Holds
  <2>3. RoomWasMeasured'
    <3>1. measure_imports' = measure_imports
      BY DEF measure_imports, Folders, Staged, Left, Runs
    <3> QED BY <3>1 DEF RoomWasMeasured, WithinCeiling, Runs
  <2>4. CopiesInv'
    BY DEF CopiesInv, CopiesAreImports, RemovalHasCopy, RemovalsMeet, ImportMeets, ImportIsUnlisted,
           ForgottenIsUnlisted, LandedIsThere, ListedIsThere, UnlistedIsBlamed, Removes, Runs
  <2>5. ClosingInv'
    BY DEF ClosingInv, FlagIsUp, LateIsKnown, Imports
  <2>6. DialogWaits'
    BY DEF DialogWaits
  <2> QED BY <2>1, <2>2, <2>3, <2>4, <2>5, <2>6
<1> QED BY <1>1, <1>2

\* The inductive invariant holds of every run, with any number of commands at once.
THEOREM LibraryInvariant == Spec => []LibraryInv
<1> QED BY InitInvariant, StepInvariant, PTL DEF Spec

\* Every variable of the library keeps its type.
THEOREM LibraryTypes == Spec => []TypeOK
<1>1. LibraryInv => TypeOK
  BY DEF LibraryInv
<1> QED BY <1>1, LibraryInvariant, PTL

\* The ceiling is a ceiling (LibraryHandle::import_reserving): nothing that is staged,
\* moved, left behind or not listed takes imports/ over it.
THEOREM CeilingHolds == Spec => []WithinCeiling
<1>1. LibraryInv => WithinCeiling
  BY DEF LibraryInv, RoomWasMeasured
<1> QED BY <1>1, LibraryInvariant, PTL

\* What is listed has its copy, unless two removals of it met (library_remove).
THEOREM ListedIsBacked == Spec => []ListedIsThere
<1>1. LibraryInv => ListedIsThere
  BY DEF LibraryInv, CopiesInv
<1> QED BY <1>1, LibraryInvariant, PTL

\* A copy nobody lists has somebody to answer for it (import_reserving, library_remove).
THEOREM CopiesAreExplained == Spec => []UnlistedIsExplained
<1>1. LibraryInv => UnlistedIsExplained
  BY DEF LibraryInv, CopiesInv, UnlistedIsBlamed, UnlistedIsExplained
<1> QED BY <1>1, LibraryInvariant, PTL

\* Closing cuts short only what began after it was decided (close_window).
THEOREM ClosingIsChecked == Spec => []CloseCutsOnlyLateImports
<1>1. LibraryInv => CloseCutsOnlyLateImports
  BY DEF LibraryInv, ClosingInv, LateIsKnown, CloseCutsOnlyLateImports
<1> QED BY <1>1, LibraryInvariant, PTL

\* The dialog is busy exactly while the one answer it waits for is due
\* (import-machine.ts, store.ts).
THEOREM BusyHasOneOwner == Spec => []BusyIsOwned
<1>1. LibraryInv => BusyIsOwned
  <2> SUFFICES ASSUME LibraryInv PROVE BusyIsOwned
    OBVIOUS
  <2> DEFINE I == {c \in Call : calls[c].op = "import"}
  <2>1. DialogWaits
    BY DEF LibraryInv
  <2>2. Cardinality(I) = IF dialog.phase = "importing" THEN 1 ELSE 0
    <3>1. CASE dialog.phase = "importing"
      <4>1. \E c \in Call : I = {c}
        BY <2>1, <3>1 DEF DialogWaits
      <4> QED BY <3>1, <4>1, FS_Singleton
    <3>2. CASE dialog.phase # "importing"
      <4>1. I = {}
        BY <2>1, <3>2 DEF DialogWaits
      <4> QED BY <3>2, <4>1, FS_EmptySet
    <3> QED BY <3>1, <3>2
  <2>3. /\ Awaited("choosing") = waiting.chooser
        /\ Awaited("inspecting") = waiting.inspection
        /\ Awaited("importing") = Cardinality(I)
    BY DEF Awaited
  <2> HIDE DEF I
  <2> QED BY <2>1, <2>2, <2>3 DEF DialogWaits, BusyIsOwned, Busy
<1> QED BY <1>1, LibraryInvariant, PTL
=============================================================================

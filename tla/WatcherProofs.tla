---------------------------- MODULE WatcherProofs ----------------------------
(***************************************************************************)
(* What a watcher hands over, for any number of files, any patience and    *)
(* any number of changes.                                                  *)
(*                                                                         *)
(* A file that changes does not come to look again as it did: what a       *)
(* listing shows of it is never older than what an earlier one showed. So  *)
(* an event, once reported, is of the version still remembered or of one   *)
(* that no listing can show again; and a count of polls belongs to the     *)
(* version the listing before showed, whether that poll came to the file   *)
(* or broke off before it.                                                 *)
(***************************************************************************)
EXTENDS Watcher, TLAPS

NeverGoesBack ==
  \A f \in Files :
    /\ folder[f] \in {Absent, newest[f]}
    /\ listing[f] <= newest[f]
    /\ listing[f] # Absent => before[f] <= listing[f]
    /\ observed[f].version <= listing[f]

\* The files the poll in progress has yet to come to.
Ahead(f) == cursor # 0 /\ cursor <= f

CountsBelongToSights ==
  \A f \in Files :
    /\ observed[f].version = Absent => observed[f].stable = 0
    /\ Ahead(f) => observed[f].version <= before[f]

Spoken == reported \cup forgiven \cup batch

SpokenIsRememberedOrOld ==
  \A f \in Files, v \in Versions :
    <<f, v>> \in Spoken => v <= listing[f] /\ (emitted[f] = v \/ v < listing[f])

NothingBeforePriming == ~primed => reported = {} /\ batch = {} /\ forgiven = {} /\ cursor = 0

ForgivenIsUnspoken == (reported \cup batch) \cap forgiven = {}

WatcherInv ==
  /\ TypeOK
  /\ NeverGoesBack
  /\ CountsBelongToSights
  /\ SpokenIsRememberedOrOld
  /\ NothingBeforePriming
  /\ ForgivenIsUnspoken

-----------------------------------------------------------------------------
LEMMA InitEstablishes == Init => WatcherInv
<1> SUFFICES ASSUME Init PROVE WatcherInv
  OBVIOUS
<1> USE WatcherAssumption DEF Absent
<1>1. {Absent, 1} \subseteq Versions \cup {Absent}
  BY DEF Versions
<1>2. Unseen \in [version : Versions \cup {Absent}, stable : 0 .. Stable]
  BY DEF Unseen
<1>3. TypeOK
  BY <1>1, <1>2 DEF Init, TypeOK
<1>4. NeverGoesBack
  BY DEF Init, NeverGoesBack, Unseen
<1>5. CountsBelongToSights
  BY DEF Init, CountsBelongToSights, Unseen, Ahead
<1>6. SpokenIsRememberedOrOld /\ NothingBeforePriming /\ ForgivenIsUnspoken
  BY DEF Init, SpokenIsRememberedOrOld, NothingBeforePriming, ForgivenIsUnspoken, Spoken
<1> QED BY <1>3, <1>4, <1>5, <1>6 DEF WatcherInv

\* Other programs touch the folder alone, and leave it with the newest version or none.
LEMMA FolderStep ==
  ASSUME WatcherInv, NEW f \in Files, Write(f) \/ Remove(f) \/ PutBack(f)
  PROVE  WatcherInv'
<1> USE WatcherAssumption
<1>1. UNCHANGED <<pollVars, reported, forgiven, lost, before>>
  BY DEF Write, Remove, PutBack
<1>0. /\ folder \in [Files -> Versions \cup {Absent}]
      /\ newest \in [Files -> Versions \cup {Absent}]
      /\ \A g \in Files : folder[g] \in {Absent, newest[g]} /\ newest[g] \in Nat
  BY DEF WatcherInv, TypeOK, NeverGoesBack, Versions, Absent
<1>2. /\ folder' \in [Files -> Versions \cup {Absent}]
      /\ newest' \in [Files -> Versions \cup {Absent}]
      /\ \A g \in Files : newest[g] <= newest'[g] /\ folder'[g] \in {Absent, newest'[g]}
  <2>1. CASE Write(f)
    <3>1. newest[f] + 1 \in Versions
      BY <1>0, <2>1 DEF Write, Versions
    <3> QED BY <1>0, <2>1, <3>1 DEF Write
  <2>2. CASE Remove(f)
    BY <1>0, <2>2 DEF Remove
  <2>3. CASE PutBack(f)
    BY <1>0, <2>3 DEF PutBack
  <2> QED BY <2>1, <2>2, <2>3
<1>3. TypeOK'
  BY <1>1, <1>2 DEF WatcherInv, TypeOK, pollVars
<1>4. NeverGoesBack'
  BY <1>1, <1>2 DEF WatcherInv, TypeOK, NeverGoesBack, pollVars, Versions, Absent
<1> QED BY <1>1, <1>3, <1>4
     DEF WatcherInv, CountsBelongToSights, SpokenIsRememberedOrOld, NothingBeforePriming,
         ForgivenIsUnspoken, Spoken, Ahead, pollVars

-----------------------------------------------------------------------------
LEMMA ListStep ==
  ASSUME WatcherInv, List
  PROVE  WatcherInv'
<1> USE WatcherAssumption
<1>1. /\ listing' = folder /\ before' = listing /\ batch' = {} /\ cursor' = 1 /\ primed' = TRUE
      /\ reported' = {e \in reported : folder[e[1]] # Absent}
      /\ UNCHANGED <<folder, newest>>
  BY DEF List
<1>2. /\ emitted' = [f \in Files |-> IF folder[f] = Absent \/ SkipsExisting
                                     THEN folder[f] ELSE emitted[f]]
      /\ observed' = [f \in Files |-> IF folder[f] = Absent THEN Unseen ELSE observed[f]]
      /\ forgiven' = IF primed \/ IncludeExisting
                     THEN {e \in forgiven : folder[e[1]] # Absent}
                     ELSE {e \in Files \X Versions : folder[e[1]] = e[2]}
      /\ lost' = {e \in lost : folder[e[1]] # Absent}
  BY DEF List
<1>3. TypeOK'
  <2>1. /\ emitted' \in [Files -> Versions \cup {Absent}]
        /\ observed' \in [Files -> [version : Versions \cup {Absent}, stable : 0 .. Stable]]
    BY <1>2 DEF WatcherInv, TypeOK, Unseen, Absent
  <2>2. 1 \in Files
    BY DEF Files
  <2>3. /\ reported' \in SUBSET (Files \X Versions) /\ forgiven' \in SUBSET (Files \X Versions)
        /\ lost' \in SUBSET (Files \X Versions)
    BY <1>1, <1>2 DEF WatcherInv, TypeOK
  <2> QED BY <1>1, <2>1, <2>2, <2>3 DEF WatcherInv, TypeOK
<1>4. NeverGoesBack' /\ CountsBelongToSights'
  <2> SUFFICES ASSUME NEW f \in Files
               PROVE  /\ folder[f] \in {Absent, newest[f]}
                      /\ folder[f] <= newest[f]
                      /\ folder[f] # Absent => listing[f] <= folder[f]
                      /\ observed'[f].version <= folder[f]
                      /\ observed'[f].version = Absent => observed'[f].stable = 0
                      /\ observed'[f].version <= listing[f]
    BY <1>1 DEF NeverGoesBack, CountsBelongToSights
  <2>1. /\ folder[f] \in {Absent, newest[f]} /\ listing[f] <= newest[f]
        /\ observed[f].version <= listing[f]
        /\ observed[f].version = Absent => observed[f].stable = 0
    BY DEF WatcherInv, NeverGoesBack, CountsBelongToSights
  <2>2. folder[f] \in Nat /\ newest[f] \in Nat /\ listing[f] \in Nat
    BY DEF WatcherInv, TypeOK, Versions, Absent
  <2>3. observed[f].version \in Nat
    <3>1. observed[f] \in [version : Versions \cup {Absent}, stable : 0 .. Stable]
      BY DEF WatcherInv, TypeOK
    <3> QED BY <3>1 DEF Versions, Absent
  <2>4. observed'[f] = IF folder[f] = Absent THEN Unseen ELSE observed[f]
    BY <1>2
  <2>5. CASE folder[f] = Absent
    <3>1. observed'[f].version = 0 /\ observed'[f].stable = 0
      BY <2>4, <2>5 DEF Unseen, Absent
    <3> QED BY <2>2, <2>5, <3>1 DEF Absent
  <2>6. CASE folder[f] # Absent
    <3>1. observed'[f] = observed[f] /\ folder[f] = newest[f]
      BY <2>1, <2>4, <2>6
    <3> QED BY <2>1, <2>2, <2>3, <2>6, <3>1
  <2> QED BY <2>5, <2>6
<1>5. SpokenIsRememberedOrOld'
  <2> SUFFICES ASSUME NEW f \in Files, NEW v \in Versions, <<f, v>> \in Spoken'
               PROVE  v <= folder[f] /\ (emitted'[f] = v \/ v < folder[f])
    BY <1>1 DEF SpokenIsRememberedOrOld
  <2>1. CASE primed \/ IncludeExisting
    <3>1. <<f, v>> \in Spoken /\ folder[f] # Absent
      BY <1>1, <1>2, <2>1 DEF Spoken
    <3>2. v <= listing[f] /\ (emitted[f] = v \/ v < listing[f])
      BY <3>1 DEF WatcherInv, SpokenIsRememberedOrOld
    <3>3. emitted'[f] = emitted[f]
      BY <1>2, <2>1, <3>1 DEF SkipsExisting
    <3>4. /\ folder[f] = newest[f] /\ listing[f] <= newest[f]
          /\ v \in Nat /\ listing[f] \in Nat /\ newest[f] \in Nat
      BY <3>1 DEF WatcherInv, TypeOK, NeverGoesBack, Versions, Absent
    <3> QED BY <3>2, <3>3, <3>4
  <2>2. CASE ~ (primed \/ IncludeExisting)
    <3>1. folder[f] = v
      BY <1>1, <1>2, <2>2 DEF Spoken, WatcherInv, NothingBeforePriming
    <3>2. emitted'[f] = folder[f]
      BY <1>2, <2>2 DEF SkipsExisting
    <3> QED BY <3>1, <3>2 DEF Versions
  <2> QED BY <2>1, <2>2
<1>6. NothingBeforePriming'
  BY <1>1 DEF NothingBeforePriming
<1>7. ForgivenIsUnspoken'
  BY <1>1, <1>2 DEF WatcherInv, NothingBeforePriming, ForgivenIsUnspoken
<1> QED BY <1>3, <1>4, <1>5, <1>6, <1>7 DEF WatcherInv

-----------------------------------------------------------------------------
\* The poll goes on from f: what is known of f may change, and out is what it has now.
LEMMA GoOnKeeps ==
  ASSUME WatcherInv, NEW f \in Files, cursor = f,
         NEW out \in SUBSET (Files \X Versions), GoOn(f, out),
         UNCHANGED <<folder, newest, primed, listing, forgiven, lost, before>>,
         observed' \in [Files -> [version : Versions \cup {Absent}, stable : 0 .. Stable]],
         emitted' \in [Files -> Versions \cup {Absent}],
         \A g \in Files : g # f => observed'[g] = observed[g] /\ emitted'[g] = emitted[g],
         observed'[f].version <= listing[f],
         observed'[f].version = Absent => observed'[f].stable = 0,
         \A v \in Versions : <<f, v>> \in reported \cup forgiven \cup out
            => v <= listing[f] /\ (emitted'[f] = v \/ v < listing[f]),
         out \ batch \subseteq {<<f, listing[f]>>}, out \cap forgiven = {}
  PROVE  WatcherInv'
<1> USE WatcherAssumption
<1>1. /\ cursor' = After(f) /\ batch' = out
      /\ reported' \subseteq reported \cup out
      /\ reported' \in SUBSET (Files \X Versions)
  BY DEF GoOn, WatcherInv, TypeOK
<1>2. cursor' \in Files \cup {0} /\ (cursor' # 0 => cursor' = f + 1) /\ f \in Nat
  BY <1>1 DEF After, Files
<1>3. TypeOK'
  BY <1>1, <1>2 DEF WatcherInv, TypeOK
<1>4. NeverGoesBack'
  BY DEF WatcherInv, NeverGoesBack
<1>5. CountsBelongToSights'
  <2> SUFFICES ASSUME NEW g \in Files
               PROVE  /\ observed'[g].version = Absent => observed'[g].stable = 0
                      /\ Ahead(g)' => observed'[g].version <= before[g]
    BY DEF CountsBelongToSights
  <2>1. CASE g = f
    BY <1>2, <2>1 DEF Ahead
  <2>2. CASE g # f
    <3>1. Ahead(g)' => Ahead(g)
      BY <1>2 DEF Ahead, Files
    <3> QED BY <2>2, <3>1 DEF WatcherInv, CountsBelongToSights
  <2> QED BY <2>1, <2>2
<1>6. SpokenIsRememberedOrOld'
  <2> SUFFICES ASSUME NEW g \in Files, NEW v \in Versions, <<g, v>> \in Spoken'
               PROVE  v <= listing[g] /\ (emitted'[g] = v \/ v < listing[g])
    BY DEF SpokenIsRememberedOrOld
  <2>1. <<g, v>> \in reported \cup forgiven \cup out
    BY <1>1 DEF Spoken
  <2>2. CASE g = f
    BY <2>1, <2>2
  <2>3. CASE g # f
    <3>1. <<g, v>> \in Spoken
      BY <2>1, <2>3 DEF Spoken
    <3> QED BY <2>3, <3>1 DEF WatcherInv, SpokenIsRememberedOrOld
  <2> QED BY <2>2, <2>3
<1>7. NothingBeforePriming' /\ ForgivenIsUnspoken'
  <2>1. primed
    BY DEF WatcherInv, NothingBeforePriming, Files
  <2> QED BY <1>1, <2>1 DEF WatcherInv, NothingBeforePriming, ForgivenIsUnspoken
<1> QED BY <1>3, <1>4, <1>5, <1>6, <1>7 DEF WatcherInv


\* What a look at a file leaves known of it.
LEMMA NotedFacts ==
  ASSUME WatcherInv, NEW f \in Files
  PROVE  /\ Noted(f) \in [version : Versions \cup {Absent}, stable : 0 .. Stable]
         /\ Noted(f).version = listing[f]
         /\ listing[f] \in Nat
<1> USE WatcherAssumption
<1>1. /\ observed[f] \in [version : Versions \cup {Absent}, stable : 0 .. Stable]
      /\ listing[f] \in Versions \cup {Absent}
  BY DEF WatcherInv, TypeOK
<1>2. OneMore(observed[f].stable) \in 0 .. Stable /\ 0 \in 0 .. Stable
  BY <1>1 DEF OneMore
<1> QED BY <1>1, <1>2 DEF Noted, Versions, Absent

\* A file that is due has not been spoken of as it is listed.
LEMMA DueIsUnspoken ==
  ASSUME WatcherInv, NEW f \in Files, ~Handed(f)
  PROVE  /\ listing[f] # Absent
         /\ <<f, listing[f]>> \in Files \X Versions
         /\ \A v \in Versions : <<f, v>> \in Spoken => v < listing[f]
<1>1. listing[f] # Absent /\ emitted[f] # listing[f]
  BY DEF Handed
<1>2. listing[f] \in Versions
  BY <1>1 DEF WatcherInv, TypeOK
<1>3. ASSUME NEW v \in Versions, <<f, v>> \in Spoken
      PROVE  v < listing[f]
  <2>1. v <= listing[f] /\ (emitted[f] = v \/ v < listing[f])
    BY <1>3 DEF WatcherInv, SpokenIsRememberedOrOld
  <2> QED BY <1>1, <1>2, <2>1 DEF Versions
<1> QED BY <1>1, <1>2, <1>3

LEMMA PassStep ==
  ASSUME WatcherInv, NEW f \in Files, PassFile(f)
  PROVE  WatcherInv'
<1>1. cursor = f /\ GoOn(f, batch) /\ UNCHANGED <<observed, emitted>>
      /\ UNCHANGED <<folder, newest, primed, listing, forgiven, lost, before>>
  BY DEF PassFile
<1>2. /\ batch \in SUBSET (Files \X Versions)
      /\ observed' \in [Files -> [version : Versions \cup {Absent}, stable : 0 .. Stable]]
      /\ emitted' \in [Files -> Versions \cup {Absent}]
  BY <1>1 DEF WatcherInv, TypeOK
<1>3. \A g \in Files : g # f => observed'[g] = observed[g] /\ emitted'[g] = emitted[g]
  BY <1>1
<1>4. /\ observed'[f].version <= listing[f]
      /\ observed'[f].version = Absent => observed'[f].stable = 0
  BY <1>1 DEF WatcherInv, NeverGoesBack, CountsBelongToSights
<1>5. \A v \in Versions : <<f, v>> \in reported \cup forgiven \cup batch
         => v <= listing[f] /\ (emitted'[f] = v \/ v < listing[f])
  BY <1>1 DEF WatcherInv, SpokenIsRememberedOrOld, Spoken
<1>6. batch \ batch \subseteq {<<f, listing[f]>>} /\ batch \cap forgiven = {}
  BY DEF WatcherInv, ForgivenIsUnspoken
<1> QED BY <1>1, <1>2, <1>3, <1>4, <1>5, <1>6, GoOnKeeps

LEMMA WaitStep ==
  ASSUME WatcherInv, NEW f \in Files, WaitForFile(f)
  PROVE  WatcherInv'
<1>a. ~Handed(f)
  BY DEF WaitForFile
<1>b. /\ Noted(f).version = listing[f] /\ listing[f] \in Nat /\ listing[f] # Absent
      /\ \A v \in Versions : v \in Nat /\ (<<f, v>> \in Spoken => v < listing[f])
  <2>1. /\ listing[f] # Absent
        /\ \A v \in Versions : <<f, v>> \in Spoken => v < listing[f]
    BY <1>a, DueIsUnspoken
  <2>2. Noted(f).version = listing[f] /\ listing[f] \in Nat
    BY NotedFacts
  <2>3. \A v \in Versions : v \in Nat
    BY DEF Versions
  <2> QED BY <2>1, <2>2, <2>3
<1>1. /\ cursor = f /\ GoOn(f, batch) /\ ~Handed(f)
      /\ observed' = [observed EXCEPT ![f] = Noted(f)]
      /\ emitted' = [emitted EXCEPT ![f] = Absent]
      /\ UNCHANGED <<folder, newest, primed, listing, forgiven, lost, before>>
  BY DEF WaitForFile
<1>2. /\ batch \in SUBSET (Files \X Versions)
      /\ observed \in [Files -> [version : Versions \cup {Absent}, stable : 0 .. Stable]]
      /\ emitted \in [Files -> Versions \cup {Absent}]
  BY DEF WatcherInv, TypeOK
<1>3. /\ observed' \in [Files -> [version : Versions \cup {Absent}, stable : 0 .. Stable]]
      /\ emitted' \in [Files -> Versions \cup {Absent}]
      /\ \A g \in Files : g # f => observed'[g] = observed[g] /\ emitted'[g] = emitted[g]
      /\ observed'[f] = Noted(f) /\ emitted'[f] = Absent
  BY <1>1, <1>2, NotedFacts
<1>4. /\ observed'[f].version <= listing[f]
      /\ observed'[f].version = Absent => observed'[f].stable = 0
  BY <1>3, <1>b
<1>5. \A v \in Versions : <<f, v>> \in reported \cup forgiven \cup batch
         => v <= listing[f] /\ (emitted'[f] = v \/ v < listing[f])
  <2> SUFFICES ASSUME NEW v \in Versions, <<f, v>> \in Spoken
               PROVE  v <= listing[f] /\ v < listing[f]
    BY DEF Spoken
  <2> QED BY <1>b
<1>6. batch \ batch \subseteq {<<f, listing[f]>>} /\ batch \cap forgiven = {}
  BY DEF WatcherInv, ForgivenIsUnspoken
<1> QED BY <1>1, <1>2, <1>3, <1>4, <1>5, <1>6, GoOnKeeps

LEMMA HandOverStep ==
  ASSUME WatcherInv, NEW f \in Files, HandOver(f)
  PROVE  WatcherInv'
<1> DEFINE out == batch \cup {<<f, listing[f]>>}
<1>a. ~Handed(f)
  BY DEF HandOver
<1>b. /\ Noted(f).version = listing[f] /\ listing[f] \in Nat /\ listing[f] # Absent
      /\ \A v \in Versions : v \in Nat /\ (<<f, v>> \in Spoken => v < listing[f])
  <2>1. /\ listing[f] # Absent
        /\ \A v \in Versions : <<f, v>> \in Spoken => v < listing[f]
    BY <1>a, DueIsUnspoken
  <2>2. Noted(f).version = listing[f] /\ listing[f] \in Nat
    BY NotedFacts
  <2>3. \A v \in Versions : v \in Nat
    BY DEF Versions
  <2> QED BY <2>1, <2>2, <2>3
<1>1. /\ cursor = f /\ GoOn(f, out) /\ ~Handed(f)
      /\ observed' = [observed EXCEPT ![f] = Unseen]
      /\ emitted' = [emitted EXCEPT ![f] = listing[f]]
      /\ UNCHANGED <<folder, newest, primed, listing, forgiven, lost, before>>
  BY DEF HandOver
<1>2. /\ out \in SUBSET (Files \X Versions)
      /\ observed \in [Files -> [version : Versions \cup {Absent}, stable : 0 .. Stable]]
      /\ emitted \in [Files -> Versions \cup {Absent}]
      /\ listing[f] \in Versions \cup {Absent}
  BY <1>1, DueIsUnspoken DEF WatcherInv, TypeOK
<1>3. /\ observed' \in [Files -> [version : Versions \cup {Absent}, stable : 0 .. Stable]]
      /\ emitted' \in [Files -> Versions \cup {Absent}]
      /\ \A g \in Files : g # f => observed'[g] = observed[g] /\ emitted'[g] = emitted[g]
      /\ observed'[f] = Unseen /\ emitted'[f] = listing[f]
  <2>1. Unseen \in [version : Versions \cup {Absent}, stable : 0 .. Stable]
    BY WatcherAssumption DEF Unseen
  <2> QED BY <1>1, <1>2, <2>1
<1>4. /\ observed'[f].version <= listing[f]
      /\ observed'[f].version = Absent => observed'[f].stable = 0
  BY <1>3, NotedFacts DEF Unseen, Absent
<1>5. \A v \in Versions : <<f, v>> \in reported \cup forgiven \cup out
         => v <= listing[f] /\ (emitted'[f] = v \/ v < listing[f])
  <2> SUFFICES ASSUME NEW v \in Versions, <<f, v>> \in Spoken \/ v = listing[f]
               PROVE  v <= listing[f] /\ (listing[f] = v \/ v < listing[f])
    BY <1>3 DEF Spoken
  <2> QED BY <1>b
<1>6. <<f, listing[f]>> \notin Spoken
  <2>1. listing[f] \in Versions
    BY <1>1, <1>2, DueIsUnspoken
  <2> QED BY <1>1, <2>1, NotedFacts, DueIsUnspoken
<1>7. out \ batch \subseteq {<<f, listing[f]>>} /\ out \cap forgiven = {}
  BY <1>6 DEF WatcherInv, ForgivenIsUnspoken, Spoken
<1> HIDE DEF out
<1> QED BY <1>1, <1>2, <1>3, <1>4, <1>5, <1>7, GoOnKeeps

\* A poll that breaks off has nothing to report, and remembers its count.
LEMMA HandOverFailsStep ==
  ASSUME WatcherInv, NEW f \in Files, HandOverFails(f)
  PROVE  WatcherInv'
<1>a. ~Handed(f)
  BY DEF HandOverFails
<1>b. /\ Noted(f).version = listing[f] /\ listing[f] \in Nat /\ listing[f] # Absent
      /\ \A v \in Versions : v \in Nat /\ (<<f, v>> \in Spoken => v < listing[f])
  <2>1. /\ listing[f] # Absent
        /\ \A v \in Versions : <<f, v>> \in Spoken => v < listing[f]
    BY <1>a, DueIsUnspoken
  <2>2. Noted(f).version = listing[f] /\ listing[f] \in Nat
    BY NotedFacts
  <2>3. \A v \in Versions : v \in Nat
    BY DEF Versions
  <2> QED BY <2>1, <2>2, <2>3
<1>1. /\ cursor = f /\ ~Handed(f) /\ cursor' = 0 /\ batch' = {} /\ lost' = lost \cup batch
      /\ observed' = [observed EXCEPT ![f] = Noted(f)]
      /\ emitted' = [emitted EXCEPT ![f] = Absent]
      /\ UNCHANGED <<folder, newest, primed, listing, reported, forgiven, before>>
  BY DEF HandOverFails
<1>2. TypeOK
  BY DEF WatcherInv
<1>3. /\ observed' \in [Files -> [version : Versions \cup {Absent}, stable : 0 .. Stable]]
      /\ emitted' \in [Files -> Versions \cup {Absent}]
      /\ \A g \in Files : g # f => observed'[g] = observed[g] /\ emitted'[g] = emitted[g]
      /\ observed'[f] = Noted(f) /\ emitted'[f] = Absent
  BY <1>1, <1>2, NotedFacts DEF TypeOK
<1>4. TypeOK'
  BY <1>1, <1>2, <1>3 DEF TypeOK
<1>5. NeverGoesBack'
  BY <1>1, <1>3, NotedFacts DEF WatcherInv, NeverGoesBack
<1>6. CountsBelongToSights'
  BY <1>1, <1>3, <1>b DEF WatcherInv, CountsBelongToSights, Ahead
<1>7. SpokenIsRememberedOrOld'
  <2> SUFFICES ASSUME NEW g \in Files, NEW v \in Versions, <<g, v>> \in Spoken
               PROVE  v <= listing[g] /\ (emitted'[g] = v \/ v < listing[g])
    BY <1>1 DEF SpokenIsRememberedOrOld, Spoken
  <2>1. CASE g = f
    BY <2>1, <1>b
  <2>2. CASE g # f
    BY <1>3, <2>2 DEF WatcherInv, SpokenIsRememberedOrOld
  <2> QED BY <2>1, <2>2
<1>8. NothingBeforePriming' /\ ForgivenIsUnspoken'
  BY <1>1 DEF WatcherInv, NothingBeforePriming, ForgivenIsUnspoken
<1> QED BY <1>4, <1>5, <1>6, <1>7, <1>8 DEF WatcherInv


-----------------------------------------------------------------------------
LEMMA StepKeeps == WatcherInv /\ [Next]_vars => WatcherInv'
<1> SUFFICES ASSUME WatcherInv, [Next]_vars
             PROVE  WatcherInv'
  OBVIOUS
<1>1. CASE List
  BY <1>1, ListStep
<1>2. ASSUME NEW f \in Files, PassFile(f) PROVE WatcherInv'
  BY <1>2, PassStep
<1>3. ASSUME NEW f \in Files, WaitForFile(f) PROVE WatcherInv'
  BY <1>3, WaitStep
<1>4. ASSUME NEW f \in Files, HandOver(f) PROVE WatcherInv'
  BY <1>4, HandOverStep
<1>5. ASSUME NEW f \in Files, HandOverFails(f) PROVE WatcherInv'
  BY <1>5, HandOverFailsStep
<1>6. ASSUME NEW f \in Files, Write(f) \/ Remove(f) \/ PutBack(f) PROVE WatcherInv'
  BY <1>6, FolderStep
<1>7. CASE UNCHANGED vars
  BY <1>7 DEF vars, pollVars, WatcherInv, TypeOK, NeverGoesBack, CountsBelongToSights, Ahead,
     SpokenIsRememberedOrOld, Spoken, NothingBeforePriming, ForgivenIsUnspoken
<1> QED BY <1>1, <1>2, <1>3, <1>4, <1>5, <1>6, <1>7 DEF Next, Step

\* Whatever other programs do to the folder, what the watcher remembers of a file
\* and what it said of it agree with what its listings have shown (FolderWatcher::poll).
THEOREM WatcherInvariant == Spec => []WatcherInv
BY InitEstablishes, StepKeeps, PTL DEF Spec

\* The state of a watcher has the types of triggers.rs.
THEOREM WatcherTypes == Spec => []TypeOK
<1>1. WatcherInv => TypeOK
  BY DEF WatcherInv
<1> QED BY <1>1, WatcherInvariant, PTL

\* What was in the folder when the watcher was primed never starts the workflow
\* unless it changed or was away for a listing ("existing" off).
THEOREM ExistingIsLeftAlone == Spec => []ExistingLeftAlone
<1>1. WatcherInv => ExistingLeftAlone
  BY DEF WatcherInv, ForgivenIsUnspoken, ExistingLeftAlone
<1> QED BY <1>1, WatcherInvariant, PTL

\* The only event a step of a poll can add is of the file it has come to, as listed,
\* after as many polls as the watcher waits for.
LEMMA NewEventIsOfADueFile ==
  ASSUME WatcherInv, [Next]_vars, NEW e \in NewEvents
  PROVE  \E f \in Files : HandOver(f) /\ e = <<f, listing[f]>>
<1>1. e \in batch' /\ e \notin batch
  BY DEF NewEvents
<1>2. CASE List
  BY <1>1, <1>2 DEF List
<1>3. ASSUME NEW f \in Files, PassFile(f) \/ WaitForFile(f) \/ HandOverFails(f)
      PROVE  FALSE
  BY <1>1, <1>3 DEF PassFile, WaitForFile, HandOverFails, GoOn
<1>4. ASSUME NEW f \in Files, HandOver(f)
      PROVE  e = <<f, listing[f]>>
  BY <1>1, <1>4 DEF HandOver, GoOn
<1>5. ASSUME NEW f \in Files, Write(f) \/ Remove(f) \/ PutBack(f)
      PROVE  FALSE
  BY <1>1, <1>5 DEF Write, Remove, PutBack, pollVars
<1>6. ~UNCHANGED vars
  BY <1>1 DEF vars, pollVars
<1> QED BY <1>2, <1>3, <1>4, <1>5, <1>6 DEF Next, Step

\* No file is handed over twice for the same contents as long as every listing has
\* shown it since ("kept so a file is not processed twice", triggers.rs).
THEOREM NothingIsHandedTwice == Spec => NeverTwice
<1>1. ASSUME WatcherInv, [Next]_vars
      PROVE  NewEvents \cap reported = {}
  <2> SUFFICES ASSUME NEW e \in NewEvents, e \in reported
               PROVE  FALSE
    OBVIOUS
  <2>1. PICK f \in Files : HandOver(f) /\ e = <<f, listing[f]>>
    BY <1>1, NewEventIsOfADueFile
  <2>2. ~Handed(f)
    BY <2>1 DEF HandOver
  <2>3. /\ <<f, listing[f]>> \in Files \X Versions
        /\ \A v \in Versions : <<f, v>> \in Spoken => v < listing[f]
    BY <1>1, <2>2, DueIsUnspoken
  <2>4. listing[f] \in Versions /\ listing[f] \in Nat
    BY <1>1, <2>3, NotedFacts
  <2>5. <<f, listing[f]>> \in Spoken
    BY <2>1 DEF Spoken
  <2> QED BY <2>3, <2>4, <2>5
<1>2. WatcherInv /\ [Next]_vars => [NewEvents \cap reported = {}]_vars
  BY <1>1
<1> QED BY <1>2, WatcherInvariant, PTL DEF Spec, NeverTwice

\* With two polls or more to wait, as STABLE_POLLS asks, a file is handed over only as
\* the listing before showed it too, so one that still grows is left alone.
THEOREM FilesSettleFirst ==
  ASSUME Stable >= 2
  PROVE  Spec => SettledFirst
<1>1. ASSUME WatcherInv, [Next]_vars
      PROVE  \A e \in NewEvents : before[e[1]] = e[2]
  <2> SUFFICES ASSUME NEW e \in NewEvents
               PROVE  before[e[1]] = e[2]
    OBVIOUS
  <2>1. PICK f \in Files : HandOver(f) /\ e = <<f, listing[f]>>
    BY <1>1, NewEventIsOfADueFile
  <2>2. /\ ~Handed(f) /\ Noted(f).stable >= Stable /\ cursor = f
    BY <2>1 DEF HandOver
  <2>3. listing[f] # Absent
    BY <1>1, <2>2, DueIsUnspoken
  <2>4. /\ observed[f] \in [version : Versions \cup {Absent}, stable : 0 .. Stable]
        /\ before[f] \in Versions \cup {Absent} /\ listing[f] \in Versions \cup {Absent}
        /\ Stable \in Nat
    BY <1>1, WatcherAssumption DEF WatcherInv, TypeOK
  <2>5. observed[f].version = listing[f]
    <3>1. observed[f].version = Absent => observed[f].stable = 0
      BY <1>1 DEF WatcherInv, CountsBelongToSights
    <3>2. CASE observed[f].version = Absent
      <4>1. Noted(f).stable <= 1
        BY <2>4, <3>1, <3>2 DEF Noted, OneMore
      <4>2. Noted(f).stable \in Nat
        BY <2>4, <3>1, <3>2 DEF Noted, OneMore
      <4> QED BY <2>2, <2>4, <4>1, <4>2
    <3>3. CASE observed[f].version \notin {Absent, listing[f]}
      <4>1. Noted(f).stable = 0
        BY <3>3 DEF Noted
      <4> QED BY <2>2, <2>4, <4>1
    <3> QED BY <3>2, <3>3
  <2>6. Ahead(f)
    BY <2>2 DEF Ahead, Files
  <2>7. observed[f].version <= before[f] /\ before[f] <= listing[f]
    BY <1>1, <2>3, <2>6 DEF WatcherInv, CountsBelongToSights, NeverGoesBack
  <2>8. before[f] \in Nat /\ listing[f] \in Nat
    BY <2>4 DEF Versions, Absent
  <2> QED BY <2>1, <2>5, <2>7, <2>8
<1>2. WatcherInv /\ [Next]_vars => [\A e \in NewEvents : before[e[1]] = e[2]]_vars
  BY <1>1
<1> QED BY <1>2, WatcherInvariant, PTL DEF Spec, SettledFirst
=============================================================================

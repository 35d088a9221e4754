--------------------------- MODULE EntryPagesProofs ---------------------------
(***************************************************************************)
(* The pages in front of the wizards do their work once per visit, for any *)
(* number of visits and of changes of the accounts.  What is inductive is  *)
(* a fact about each visit: its lock is held whenever it has work under    *)
(* way, or, on the pages that lock in the cleanup, whenever the effect can *)
(* run again; and a draft that was made keeps its page from beginning      *)
(* again.                                                                  *)
(***************************************************************************)
EXTENDS EntryPages, TLAPS

VisitRecord == [page : Page, lock : BOOLEAN, isUnmounted : BOOLEAN,
                ready : BOOLEAN, runs : [Run -> Phase]]

Quiet(r) == ~Busy(r, 1) /\ ~Busy(r, 2)
MadeDraft(r) == r.page = "create" /\ \E i \in Run : r.runs[i] = "done"

\* One run at a time; a lock that is released is held as long as its run.
Sound(r) ==
  /\ r \in VisitRecord
  /\ ~(Busy(r, 1) /\ Busy(r, 2))
  /\ service = "rfq" => /\ Quiet(r) \/ r.lock
                        /\ r.lock => ~Quiet(r) \/ MadeDraft(r)

\* A visit that made a draft is over with its work.
DraftOK(r, d) ==
  d > 0 /\ ~(lossy /\ service = "rfq") =>
    d = 1 /\ Quiet(r) /\ (service = "rfq" => r.lock)

Unused(r, d) == r.runs[1] = "idle" /\ r.runs[2] = "idle" /\ d = 0

VisitOK(v) ==
  /\ Sound(visits[v])
  /\ DraftOK(visits[v], drafts[v])
  /\ v > visit => Unused(visits[v], drafts[v])

EntryInv == TypeOK /\ \A v \in Visit : VisitOK(v)

-----------------------------------------------------------------------------
(* The effect and its cleanup, on the record of a visit *)

\* Starting takes the first of the two places for a run if it is free.
LEMMA StartedIs ==
  ASSUME NEW r \in VisitRecord
  PROVE  /\ Started(r) \in VisitRecord
         /\ Started(r).page = r.page
         /\ Started(r).isUnmounted = r.isUnmounted
         /\ service = "rfq" => Started(r).lock
         /\ service # "rfq" => Started(r).lock = r.lock
         /\ Started(r).runs = [r.runs EXCEPT ![FreeRun(r)] = "token"]
<1>1. [r.runs EXCEPT ![FreeRun(r)] = "token"] \in [Run -> Phase]
  BY DEF VisitRecord, Phase
<1>2. (r.lock \/ ~SetByCleanup(r)) \in BOOLEAN
  OBVIOUS
<1> QED
  BY <1>1, <1>2 DEF Started, VisitRecord, SetByCleanup

\* The effect begins its work only if the lock is free, and keeps a sound
\* visit sound where a free lock means that nothing is under way.
LEMMA EffectSound ==
  ASSUME NEW r, Sound(r), r.lock \/ Quiet(r), NEW known \in BOOLEAN
  PROVE  /\ Sound(Effect(r, known))
         /\ Effect(r, known).page = r.page
         /\ Effect(r, known).isUnmounted = r.isUnmounted
         /\ r.lock => Effect(r, known) = r
<1>1. CASE ~MayStart(r, known)
  BY <1>1 DEF Effect
<1>2. CASE MayStart(r, known)
  <2> DEFINE s == Started(r)
  <2>1. r \in VisitRecord /\ ~r.lock /\ Quiet(r) /\ FreeRun(r) = 1
    BY <1>2 DEF MayStart, Sound, Quiet, FreeRun
  <2>2. /\ s \in VisitRecord
        /\ s.page = r.page /\ s.isUnmounted = r.isUnmounted
        /\ service = "rfq" => s.lock
        /\ s.runs = [r.runs EXCEPT ![1] = "token"]
    BY <2>1, StartedIs
  <2> HIDE DEF s
  <2>4. s.runs[1] = "token" /\ s.runs[2] = r.runs[2]
    BY <2>1, <2>2 DEF VisitRecord, Run
  <2>5. Sound(s)
    BY <2>1, <2>2, <2>4 DEF Sound, Busy, Quiet
  <2> QED
    BY <2>1, <2>2, <2>5, <1>2 DEF Effect, s
<1> QED
  BY <1>1, <1>2

\* The cleanup only ever takes the lock, and takes it where the effect does
\* not.
LEMMA CleanupSound ==
  ASSUME NEW r, Sound(r)
  PROVE  /\ Sound(Cleanup(r))
         /\ Cleanup(r).page = r.page
         /\ Cleanup(r).isUnmounted = r.isUnmounted
         /\ Cleanup(r).runs = r.runs
         /\ Cleanup(r).lock \/ Quiet(Cleanup(r))
         /\ r.lock => Cleanup(r).lock
         /\ service # "rfq" => Cleanup(r).lock
<1> DEFINE c == Cleanup(r)
<1>1. r \in VisitRecord
  BY DEF Sound
<1>2. c = [page |-> r.page, lock |-> r.lock \/ service # "rfq",
           isUnmounted |-> r.isUnmounted, ready |-> r.ready, runs |-> r.runs]
  BY <1>1 DEF Cleanup, VisitRecord, SetByCleanup
<1>3. c \in VisitRecord
  BY <1>1, <1>2 DEF VisitRecord
<1> HIDE DEF c
<1>4. /\ c.page = r.page /\ c.runs = r.runs /\ c.isUnmounted = r.isUnmounted
      /\ c.lock = (r.lock \/ service # "rfq")
  BY <1>2
<1>5. Sound(c)
  BY <1>3, <1>4 DEF Sound, Busy, Quiet, MadeDraft
<1>6. c.lock \/ Quiet(c)
  BY <1>4 DEF Sound, Busy, Quiet
<1> QED
  BY <1>4, <1>5, <1>6 DEF c

LEMMA UnmountedSound ==
  ASSUME NEW r, Sound(r)
  PROVE  /\ Sound(Unmounted(r))
         /\ Unmounted(r).page = r.page
         /\ Unmounted(r).isUnmounted
         /\ Unmounted(r).runs = r.runs
         /\ Unmounted(r).lock \/ Quiet(Unmounted(r))
         /\ r.lock => Unmounted(r).lock
<1> DEFINE c == Cleanup(r)
           u == Unmounted(r)
<1>1. /\ Sound(c) /\ c.page = r.page /\ c.runs = r.runs
      /\ c.lock \/ Quiet(c)
      /\ r.lock => c.lock
  BY CleanupSound
<1>2. u = [c EXCEPT !.isUnmounted = TRUE]
  BY DEF Unmounted
<1> HIDE DEF c, u
<1>3. u \in VisitRecord
  BY <1>1, <1>2 DEF Sound, VisitRecord
<1>4. /\ u.page = c.page /\ u.runs = c.runs /\ u.isUnmounted /\ u.lock = c.lock
  BY <1>1, <1>2 DEF Sound, VisitRecord
<1>5. Sound(u) /\ (u.lock \/ Quiet(u))
  BY <1>1, <1>3, <1>4 DEF Sound, Busy, Quiet, MadeDraft
<1> QED
  BY <1>1, <1>4, <1>5 DEF u

\* A page that was just mounted is sound and not unmounted.
LEMMA MountedSound ==
  ASSUME NEW p \in Page, details \in BOOLEAN
  PROVE  /\ Sound(Mounted(p)) /\ Mounted(p).page = p
         /\ ~Mounted(p).isUnmounted
<1> DEFINE f == Fresh(p)
           e == Effect(f, details)
           u == Unmounted(e)
           m == Remounted(u)
<1>1. f \in VisitRecord /\ f.page = p /\ ~f.isUnmounted
      /\ ~f.lock /\ f.runs[1] = "idle" /\ f.runs[2] = "idle"
  BY DEF Fresh, VisitRecord, Run, Phase
<1>2. Sound(f) /\ Quiet(f)
  BY <1>1 DEF Sound, Quiet, Busy
<1> HIDE DEF f
<1>3. Sound(e) /\ e.page = p /\ ~e.isUnmounted
  BY <1>1, <1>2, EffectSound
<1> HIDE DEF e
<1>4. Sound(u) /\ u.page = p /\ (u.lock \/ Quiet(u))
  BY <1>3, UnmountedSound
<1> HIDE DEF u
<1>5. m = [u EXCEPT !.isUnmounted = FALSE]
  BY DEF Remounted
<1> HIDE DEF m
<1>6. m \in VisitRecord
  BY <1>4, <1>5 DEF Sound, VisitRecord
<1>7. m.page = p /\ m.lock = u.lock /\ m.runs = u.runs /\ ~m.isUnmounted
  BY <1>4, <1>5 DEF Sound, VisitRecord
<1>8. Sound(m) /\ (m.lock \/ Quiet(m))
  BY <1>4, <1>6, <1>7 DEF Sound, Busy, Quiet, MadeDraft
<1>9. /\ Sound(Effect(m, details)) /\ Effect(m, details).page = p
      /\ ~Effect(m, details).isUnmounted
  BY <1>7, <1>8, EffectSound
<1> QED
  BY <1>3, <1>9 DEF Mounted, f, e, u, m

-----------------------------------------------------------------------------
(* The visits together *)

\* What EntryInv says of the visits, for the records vs and the drafts d.
Good(vs, d) ==
  /\ vs \in [Visit -> VisitRecord]
  /\ d \in [Visit -> Nat]
  /\ \A v \in Visit : /\ Sound(vs[v])
                      /\ DraftOK(vs[v], d[v])
                      /\ v > visit => Unused(vs[v], d[v])

Marked(vs) == \A v \in 1..visit : vs[v].isUnmounted = ~IsShown(v)

LEMMA InvIsGood ==
  ASSUME EntryInv
  PROVE  Good(visits, drafts) /\ Marked(visits) /\ visit \in 0..MaxVisits
BY DEF EntryInv, TypeOK, VisitOK, Good, Marked, VisitRecord

\* The next state's visits are good if the records are, with the visit as it
\* was or counted on.
LEMMA GoodIsInv ==
  ASSUME TypeOK', Good(visits, drafts)'
  PROVE  EntryInv'
BY DEF EntryInv, Good, VisitOK

\* A change of one visit that was made already.
LEMMA OneGood ==
  ASSUME Good(visits, drafts), Marked(visits), visit \in 0..MaxVisits,
         NEW v \in 1..visit, NEW n, NEW k \in Nat,
         Sound(n), DraftOK(n, k), n.isUnmounted = visits[v].isUnmounted
  PROVE  /\ Good([visits EXCEPT ![v] = n], [drafts EXCEPT ![v] = k])
         /\ Marked([visits EXCEPT ![v] = n])
<1> DEFINE vs == [visits EXCEPT ![v] = n]
           d == [drafts EXCEPT ![v] = k]
<1>1. n \in VisitRecord /\ v \in Visit /\ visit \in Nat
  BY EntryAssumption DEF Sound, Visit
<1>2. vs \in [Visit -> VisitRecord] /\ d \in [Visit -> Nat]
  BY <1>1 DEF Good
<1>3. /\ vs[v] = n /\ d[v] = k
      /\ \A w \in Visit : w # v => vs[w] = visits[w] /\ d[w] = drafts[w]
  BY <1>1 DEF Good
<1> HIDE DEF vs, d
<1>4. Good(vs, d)
  BY <1>1, <1>2, <1>3 DEF Good
<1>5. 1..visit \subseteq Visit
  BY EntryAssumption DEF Visit
<1>6. Marked(vs)
  BY <1>1, <1>3, <1>5 DEF Marked
<1> QED
  BY <1>4, <1>6 DEF vs, d

\* Leaving the page shown marks its visit, and so all of them, as unmounted.
LEMMA LeavingGood ==
  ASSUME NEW vs, NEW d, Good(vs, d), Marked(vs), visit \in 0..MaxVisits
  PROVE  /\ Good(AfterLeaving(vs), d)
         /\ \A v \in 1..visit : AfterLeaving(vs)[v].isUnmounted
<1> DEFINE ws == AfterLeaving(vs)
<1>1. \A v \in Visit : ws[v] = IF IsShown(v) THEN Unmounted(vs[v]) ELSE vs[v]
  BY DEF AfterLeaving
<1>2. \A v \in Visit : IsShown(v) => v = visit
  BY DEF IsShown
<1>3. ASSUME NEW v \in Visit
      PROVE  /\ Sound(ws[v]) /\ DraftOK(ws[v], d[v])
             /\ v > visit => Unused(ws[v], d[v])
             /\ IsShown(v) => ws[v].isUnmounted
             /\ ~IsShown(v) => ws[v] = vs[v]
  <2>1. Sound(vs[v]) /\ DraftOK(vs[v], d[v]) /\ (v > visit => Unused(vs[v], d[v]))
    BY DEF Good
  <2>2. CASE IsShown(v)
    <3>1. /\ ws[v] = Unmounted(vs[v])
          /\ Sound(ws[v]) /\ ws[v].isUnmounted /\ ws[v].runs = vs[v].runs
          /\ vs[v].lock => ws[v].lock
      BY <2>1, <2>2, <1>1, UnmountedSound
    <3> QED
      BY <2>1, <2>2, <3>1 DEF DraftOK, Unused, Quiet, Busy
  <2>3. CASE ~IsShown(v)
    BY <2>1, <2>3, <1>1
  <2> QED
    BY <2>2, <2>3
<1>4. ws \in [Visit -> VisitRecord]
  <2>1. ws = [v \in Visit |-> ws[v]]
    BY DEF AfterLeaving
  <2>2. \A v \in Visit : ws[v] \in VisitRecord
    BY <1>3 DEF Sound
  <2> HIDE DEF ws
  <2> QED
    BY <2>1, <2>2
<1>5. 1..visit \subseteq Visit
  BY EntryAssumption DEF Visit
<1> HIDE DEF ws
<1>6. Good(ws, d)
  BY <1>3, <1>4 DEF Good
<1>7. \A v \in 1..visit : ws[v].isUnmounted
  BY <1>3, <1>5 DEF Marked
<1> QED
  BY <1>6, <1>7 DEF ws

\* Mounting a page takes the next visit for it, which is the one shown.
LEMMA ShowsGood ==
  ASSUME NEW p \in Page, NEW vs, Good(vs, drafts'), visit \in 0..MaxVisits,
         \A v \in 1..visit : vs[v].isUnmounted,
         details \in BOOLEAN, Shows(p, vs), UNCHANGED <<service, lossy>>
  PROVE  /\ Good(visits, drafts)'
         /\ visit' \in 0..MaxVisits /\ visit' \in 1..MaxVisits
         /\ place' = p
         /\ (\A v \in 1..visit : visits[v].isUnmounted = ~IsShown(v))'
<1>1. /\ visit < MaxVisits /\ visit' = visit + 1 /\ place' = p
      /\ visits' = [vs EXCEPT ![visit + 1] = Mounted(p)]
  BY DEF Shows
<1>2. Sound(Mounted(p)) /\ ~Mounted(p).isUnmounted
  BY MountedSound
<1>3. visit + 1 \in Visit /\ visit \in Nat /\ Mounted(p) \in VisitRecord
  BY <1>1, <1>2, EntryAssumption DEF Visit, Sound
<1> DEFINE m == Mounted(p)
<1>4. /\ visits' \in [Visit -> VisitRecord] /\ visits'[visit + 1] = m
      /\ \A v \in Visit : v # visit + 1 => visits'[v] = vs[v]
  BY <1>1, <1>3 DEF Good
<1>5. DraftOK(m, drafts'[visit + 1])
  BY <1>3 DEF Good, Unused, DraftOK
<1> HIDE DEF m
<1>6. ASSUME NEW v \in Visit
      PROVE  /\ Sound(visits'[v]) /\ DraftOK(visits'[v], drafts'[v])
             /\ v > visit + 1 => Unused(visits'[v], drafts'[v])
  BY <1>2, <1>3, <1>4, <1>5 DEF Good, m, Visit
<1>7. Good(visits, drafts)'
  <2>1. ASSUME NEW v \in Visit
        PROVE  /\ Sound(visits[v])' /\ DraftOK(visits[v], drafts[v])'
               /\ v > visit' => Unused(visits'[v], drafts'[v])
    <3>1. Sound(visits[v])'
      BY <1>6 DEF Sound, Quiet, Busy, MadeDraft
    <3>2. DraftOK(visits[v], drafts[v])'
      BY <1>6 DEF DraftOK, Quiet, Busy
    <3> QED
      BY <3>1, <3>2, <1>1, <1>6
  <2> QED
    BY <1>4, <2>1 DEF Good, Unused
<1>8. \A v \in 1..visit' : visits'[v].isUnmounted = ~(place' \in Page /\ visit' = v)
  <2> SUFFICES ASSUME NEW v \in 1..visit'
               PROVE  visits'[v].isUnmounted = ~(visit' = v)
    BY <1>1
  <2>1. v \in Visit
    BY <1>1, <1>3, EntryAssumption DEF Visit
  <2>2. CASE v = visit + 1
    BY <2>2, <1>1, <1>2, <1>4 DEF m, Sound, VisitRecord
  <2>3. CASE v # visit + 1
    <3>1. v \in 1..visit /\ visits'[v] = vs[v] /\ vs[v] \in VisitRecord
      BY <2>1, <2>3, <1>1, <1>3, <1>4 DEF Good
    <3>2. vs[v].isUnmounted \in BOOLEAN
      BY <3>1 DEF VisitRecord
    <3> QED
      BY <2>3, <3>1, <3>2, <1>1
  <2> QED
    BY <2>2, <2>3
<1> QED
  BY <1>1, <1>3, <1>7, <1>8, EntryAssumption DEF IsShown

-----------------------------------------------------------------------------
(* The steps *)

\* A run of visit v goes to another phase; n is the record it leaves.
Goes(v, i, phase, n) ==
  /\ n \in VisitRecord
  /\ n.page = visits[v].page
  /\ n.isUnmounted = visits[v].isUnmounted
  /\ n.runs = [visits[v].runs EXCEPT ![i] = phase]

\* Whoever waits goes on or ends, and an end that leaves the lock of a page
\* that locks by itself made the draft.
LEMMA GoesSound ==
  ASSUME NEW v, NEW i \in Run, NEW phase \in Phase, NEW n,
         Sound(visits[v]), Busy(visits[v], i), Goes(v, i, phase, n)
  PROVE  /\ phase \in {"first", "last"} /\ n.lock = visits[v].lock => Sound(n)
         /\ phase \in {"done", "stuck"} => Quiet(n)
         /\ /\ phase \in {"done", "stuck"}
            /\ service = "rfq" /\ n.lock => n.page = "create" /\ phase = "done"
            => Sound(n)
<1> DEFINE r == visits[v]
<1>1. /\ r \in VisitRecord /\ n \in VisitRecord
      /\ n.page = r.page /\ n.runs = [r.runs EXCEPT ![i] = phase]
      /\ Busy(r, i) /\ ~(Busy(r, 1) /\ Busy(r, 2))
      /\ service = "rfq" => r.lock
  BY DEF Goes, Sound, Quiet, Run
<1> HIDE DEF r
<1>2. n.runs[i] = phase /\ \A j \in Run : j # i => n.runs[j] = r.runs[j]
  BY <1>1 DEF VisitRecord
<1>3. 1 \in Run /\ 2 \in Run /\ \A j \in Run : j = 1 \/ j = 2
  BY DEF Run
<1>4. \A j \in Run : j # i => ~Busy(n, j)
  BY <1>1, <1>2, <1>3 DEF Busy
<1>5. Busy(n, i) <=> phase \in {"token", "first", "last"}
  BY <1>2 DEF Busy
<1>6. ~(Busy(n, 1) /\ Busy(n, 2))
  BY <1>3, <1>4
<1>7. ASSUME phase \in {"first", "last"}, n.lock = r.lock PROVE Sound(n)
  <2>1. ~Quiet(n)
    BY <1>3, <1>5, <1>7 DEF Quiet
  <2> QED
    BY <2>1, <1>1, <1>6, <1>7 DEF Sound
<1>8. ASSUME phase \in {"done", "stuck"} PROVE Quiet(n)
  BY <1>3, <1>4, <1>5, <1>8 DEF Quiet
<1>9. ASSUME phase \in {"done", "stuck"},
             service = "rfq" /\ n.lock => n.page = "create" /\ phase = "done"
      PROVE  Sound(n)
  BY <1>1, <1>2, <1>6, <1>8, <1>9 DEF Sound, MadeDraft
<1> QED
  BY <1>7, <1>8, <1>9 DEF r

\* A visit with work under way was made, and made no draft yet, unless it
\* tries again.
LEMMA BusyVisit ==
  ASSUME EntryInv, NEW v \in Visit, NEW i \in Run, Busy(visits[v], i)
  PROVE  /\ v \in 1..visit
         /\ Sound(visits[v])
         /\ drafts[v] \in Nat
         /\ drafts[v] = 0 \/ (lossy /\ service = "rfq")
         /\ DraftOK(visits[v], drafts[v])
<1>1. VisitOK(v) /\ visit \in Nat /\ drafts[v] \in Nat
  BY EntryAssumption DEF EntryInv, TypeOK
<1>2. i = 1 \/ i = 2
  BY DEF Run
<1>3. ~Quiet(visits[v]) /\ ~Unused(visits[v], drafts[v])
  BY <1>2 DEF Quiet, Busy, Unused
<1>4. v \in 1..visit
  BY <1>1, <1>3, EntryAssumption DEF VisitOK, Visit
<1>5. drafts[v] = 0 \/ (lossy /\ service = "rfq")
  BY <1>1, <1>3 DEF VisitOK, DraftOK
<1> QED
  BY <1>1, <1>4, <1>5 DEF VisitOK

\* What a step has to show when the visit and the place may have changed.
LEMMA NextIsInv ==
  ASSUME TypeOK, UNCHANGED <<service, strict, lossy>>, details' \in BOOLEAN,
         place' \in Place, fromCreate' \in BOOLEAN,
         fromCreate' => place' = "wizard",
         visit' \in 0..MaxVisits, renewals' \in 0..MaxRenewals,
         Good(visits, drafts)', Marked(visits)'
  PROVE  EntryInv'
<1>1. /\ visits' \in [Visit -> VisitRecord] /\ drafts' \in [Visit -> Nat]
      /\ \A v \in 1..visit' : visits'[v].isUnmounted = ~IsShown(v)'
  BY DEF Good, Marked
<1>2. {strict, lossy, details, fromCreate}' \subseteq BOOLEAN
  BY DEF TypeOK
<1>3. TypeOK'
  BY <1>1, <1>2 DEF TypeOK, VisitRecord
<1> QED
  BY <1>3, GoodIsInv

\* The visits are as good in the next state as they are with what leads there.
LEMMA SameGood ==
  ASSUME UNCHANGED <<service, lossy, visit>>, Good(visits', drafts')
  PROVE  Good(visits, drafts)'
<1>1. ASSUME NEW v \in Visit
      PROVE  /\ Sound(visits[v])' /\ DraftOK(visits[v], drafts[v])'
             /\ v > visit' => Unused(visits'[v], drafts'[v])
  <2>1. /\ Sound(visits'[v]) /\ DraftOK(visits'[v], drafts'[v])
        /\ v > visit => Unused(visits'[v], drafts'[v])
    BY DEF Good
  <2>2. Sound(visits[v])'
    BY <2>1 DEF Sound, Quiet, Busy, MadeDraft
  <2>3. DraftOK(visits[v], drafts[v])'
    BY <2>1 DEF DraftOK, Quiet, Busy
  <2> QED
    BY <2>1, <2>2, <2>3
<1> QED
  BY <1>1 DEF Good, Unused

\* A step of one visit's work that leaves the user where they are.
LEMMA OneStep ==
  ASSUME EntryInv, NEW v \in 1..visit, NEW n, NEW k \in Nat,
         visits' = [visits EXCEPT ![v] = n],
         drafts' = [drafts EXCEPT ![v] = k],
         Sound(n), DraftOK(n, k), n.isUnmounted = visits[v].isUnmounted,
         renewals' \in 0..MaxRenewals,
         UNCHANGED <<service, strict, lossy, details, place, fromCreate, visit>>
  PROVE  EntryInv'
<1>1. Good(visits', drafts') /\ Marked(visits')
  BY InvIsGood, OneGood
<1>2. Good(visits, drafts)'
  BY <1>1, SameGood
<1>3. Marked(visits)'
  BY <1>1 DEF Marked, IsShown
<1>4. TypeOK /\ details' \in BOOLEAN /\ fromCreate' \in BOOLEAN
      /\ place' \in Place /\ (fromCreate' => place' = "wizard")
      /\ visit' \in 0..MaxVisits
  BY DEF EntryInv, TypeOK
<1> QED
  BY <1>2, <1>3, <1>4, NextIsInv

\* The user is taken elsewhere or goes there, out of the visits vs.
LEMMA GoneStep ==
  ASSUME EntryInv, NEW vs, Good(vs, drafts), Marked(vs),
         visits' = AfterLeaving(vs),
         place' \in {"elsewhere", "notFound"}, fromCreate' = FALSE,
         UNCHANGED <<service, strict, lossy, details, visit, drafts, renewals>>
  PROVE  EntryInv'
<1>1. visit \in 0..MaxVisits
  BY InvIsGood
<1>2. Good(visits', drafts') /\ \A v \in 1..visit : visits'[v].isUnmounted
  BY <1>1, LeavingGood
<1>3. Good(visits, drafts)'
  BY <1>2, SameGood
<1>4. \A v \in 1..visit : visits'[v].isUnmounted \in BOOLEAN
  BY <1>1, <1>2, EntryAssumption DEF Good, Visit, VisitRecord
<1>5. Marked(visits)'
  BY <1>2, <1>4 DEF Marked, IsShown, Page
<1>6. TypeOK /\ details' \in BOOLEAN /\ fromCreate' \in BOOLEAN
      /\ place' \in Place /\ visit' \in 0..MaxVisits /\ renewals' \in 0..MaxRenewals
  BY DEF EntryInv, TypeOK, Place
<1> QED
  BY <1>3, <1>5, <1>6, NextIsInv

\* A page is mounted over the visits vs, none of which is on the screen.
LEMMA ShowStep ==
  ASSUME EntryInv, NEW p \in Page, NEW vs, Good(vs, drafts'),
         \A v \in 1..visit : vs[v].isUnmounted, Shows(p, vs),
         fromCreate' \in BOOLEAN, fromCreate' => p = "wizard",
         UNCHANGED <<service, strict, lossy, details, renewals>>
  PROVE  EntryInv'
<1>1. visit \in 0..MaxVisits /\ details \in BOOLEAN /\ TypeOK
  BY InvIsGood DEF EntryInv, TypeOK
<1>2. /\ Good(visits, drafts)' /\ visit' \in 0..MaxVisits /\ place' = p
      /\ (\A v \in 1..visit : visits[v].isUnmounted = ~IsShown(v))'
  BY <1>1, ShowsGood
<1>3. Marked(visits)'
  BY <1>2 DEF Marked
<1>4. place' \in Place /\ details' \in BOOLEAN /\ renewals' \in 0..MaxRenewals
  BY <1>1, <1>2 DEF Place, TypeOK
<1> QED
  BY <1>1, <1>2, <1>3, <1>4, NextIsInv

LEMMA InitEntry == Init => EntryInv
<1> SUFFICES ASSUME Init PROVE EntryInv
  OBVIOUS
<1> USE EntryAssumption DEF Init
<1>1. ASSUME NEW v \in Visit PROVE VisitOK(v)
  <2>1. visits[v] \in VisitRecord /\ visits[v].runs = [i \in Run |-> "idle"]
        /\ ~visits[v].lock
    BY DEF VisitRecord, Fresh, Page, Phase
  <2>2. visits[v].runs[1] = "idle" /\ visits[v].runs[2] = "idle" /\ drafts[v] = 0
    BY <2>1 DEF Run
  <2> QED
    BY <2>1, <2>2 DEF VisitOK, Sound, Quiet, Busy, DraftOK, Unused
<1>2. visits \in [Visit -> VisitRecord]
  BY DEF VisitRecord, Fresh, Page, Phase
<1>3. details \in BOOLEAN /\ strict \in BOOLEAN /\ lossy \in BOOLEAN
  OBVIOUS
<1>4. {strict, lossy, details, fromCreate} \subseteq BOOLEAN
  BY <1>3
<1>5. place \in Place /\ (fromCreate => place = "wizard")
  BY DEF Place
<1>6. visit \in 0..MaxVisits /\ renewals \in 0..MaxRenewals
  OBVIOUS
<1>7. \A v \in 1..visit : visits[v].isUnmounted = ~IsShown(v)
  OBVIOUS
<1>8. drafts \in [Visit -> Nat]
  OBVIOUS
<1> QED
  BY <1>1, <1>2, <1>4, <1>5, <1>6, <1>7, <1>8 DEF EntryInv, TypeOK, VisitRecord

\* The answers that leave the user where they are and the visit's lock and
\* drafts alone.
LEMMA GoesOn ==
  ASSUME EntryInv, NEW v \in Visit, NEW i \in Run, Busy(visits[v], i),
         NEW phase \in {"first", "last", "stuck"},
         phase = "stuck" => service # "rfq",
         visits' = RunGoes(v, i, phase),
         UNCHANGED <<service, strict, lossy, details, place, fromCreate, visit,
                     drafts, renewals>>
  PROVE  EntryInv'
<1> DEFINE n == [visits[v] EXCEPT !.runs[i] = phase]
<1>1. /\ v \in 1..visit /\ Sound(visits[v]) /\ drafts[v] \in Nat
      /\ drafts[v] = 0 \/ (lossy /\ service = "rfq")
  BY BusyVisit
<1>2. visits[v] \in VisitRecord /\ phase \in Phase /\ visits \in [Visit -> VisitRecord]
  BY <1>1 DEF Sound, Phase, EntryInv, TypeOK, VisitRecord
<1>3. Goes(v, i, phase, n) /\ n.lock = visits[v].lock
  BY <1>2 DEF Goes, VisitRecord
<1>4. visits' = [visits EXCEPT ![v] = n]
  BY DEF RunGoes
<1> HIDE DEF n
<1>5. Sound(n)
  BY <1>1, <1>2, <1>3, GoesSound
<1>6. DraftOK(n, drafts[v]) /\ n.isUnmounted = visits[v].isUnmounted
  BY <1>1, <1>3 DEF DraftOK, Goes
<1>7. drafts' = [drafts EXCEPT ![v] = drafts[v]]
  BY DEF EntryInv, TypeOK
<1>8. renewals' \in 0..MaxRenewals
  BY DEF EntryInv, TypeOK
<1> QED
  BY <1>1, <1>4, <1>5, <1>6, <1>7, <1>8, OneStep

LEMMA LoadArrivesStep ==
  ASSUME EntryInv, NEW v \in Visit, NEW i \in Run, LoadArrives(v, i)
  PROVE  EntryInv'
<1> DEFINE r == visits[v]
           applied == IsShown(v) /\ (ReleasedAtEnd(r) => ~r.isUnmounted)
           n == [r EXCEPT !.runs[i] = "done", !.ready = @ \/ applied,
                          !.lock = IF ReleasedAtEnd(r) THEN FALSE
                                   ELSE @ \/ applied]
<1>1. /\ r.page = "wizard" /\ Busy(r, i)
      /\ visits' = [visits EXCEPT ![v] = n]
      /\ UNCHANGED <<service, strict, lossy, details, place, fromCreate, visit,
                     drafts, renewals>>
  BY DEF LoadArrives, Busy
<1>2. /\ v \in 1..visit /\ Sound(r) /\ drafts[v] \in Nat
      /\ drafts[v] = 0 \/ (lossy /\ service = "rfq")
  BY <1>1, BusyVisit
<1>3. r \in VisitRecord
  BY <1>2 DEF Sound
<1>4. Goes(v, i, "done", n) /\ (service = "rfq" => ~n.lock)
  <2>1. applied \in BOOLEAN
    OBVIOUS
  <2> QED
    BY <1>1, <1>3, <2>1 DEF Goes, VisitRecord, Phase, ReleasedAtEnd
<1> HIDE DEF n
<1>5. Sound(n)
  BY <1>1, <1>2, <1>4, GoesSound DEF Phase
<1>6. DraftOK(n, drafts[v]) /\ n.isUnmounted = r.isUnmounted
  BY <1>2, <1>4 DEF DraftOK, Goes
<1>7. drafts' = [drafts EXCEPT ![v] = drafts[v]] /\ renewals' \in 0..MaxRenewals
  BY <1>1 DEF EntryInv, TypeOK
<1> QED
  BY <1>1, <1>2, <1>5, <1>6, <1>7, OneStep

LEMMA LoadFailsStep ==
  ASSUME EntryInv, NEW v \in Visit, NEW i \in Run, LoadFails(v, i)
  PROVE  EntryInv'
<1> DEFINE r == visits[v]
           n == [r EXCEPT !.runs[i] = "done", !.lock = @ /\ ~ReleasedAtEnd(r)]
           ended == [visits EXCEPT ![v] = n]
<1>1. /\ r.page = "wizard" /\ Busy(r, i)
      /\ UNCHANGED <<service, strict, lossy, details, visit, drafts, renewals>>
      /\ \/ visits' = ended /\ UNCHANGED <<place, fromCreate>>
         \/ /\ place' = "notFound" /\ fromCreate' = FALSE
            /\ visits' = AfterLeaving(ended)
  BY DEF LoadFails, Busy
<1>2. /\ v \in 1..visit /\ Sound(r) /\ drafts[v] \in Nat
      /\ drafts[v] = 0 \/ (lossy /\ service = "rfq")
  BY <1>1, BusyVisit
<1>3. r \in VisitRecord
  BY <1>2 DEF Sound
<1>4. Goes(v, i, "done", n) /\ (service = "rfq" => ~n.lock)
  BY <1>1, <1>3 DEF Goes, VisitRecord, Phase, ReleasedAtEnd
<1> HIDE DEF n
<1>5. Sound(n)
  BY <1>1, <1>2, <1>4, GoesSound DEF Phase
<1>6. DraftOK(n, drafts[v]) /\ n.isUnmounted = r.isUnmounted
  BY <1>2, <1>4 DEF DraftOK, Goes
<1>7. drafts = [drafts EXCEPT ![v] = drafts[v]] /\ renewals \in 0..MaxRenewals
  BY DEF EntryInv, TypeOK
<1>8. CASE visits' = ended /\ UNCHANGED <<place, fromCreate>>
  BY <1>1, <1>2, <1>5, <1>6, <1>7, <1>8, OneStep
<1>9. CASE place' = "notFound" /\ fromCreate' = FALSE /\ visits' = AfterLeaving(ended)
  <2>1. Good(ended, drafts) /\ Marked(ended)
    BY <1>2, <1>5, <1>6, <1>7, InvIsGood, OneGood
  <2> HIDE DEF ended
  <2> QED
    BY <1>1, <1>9, <2>1, GoneStep
<1> QED
  BY <1>1, <1>8, <1>9

LEMMA DraftArrivesStep ==
  ASSUME EntryInv, NEW v \in Visit, NEW i \in Run, DraftArrives(v, i)
  PROVE  EntryInv'
<1> DEFINE r == visits[v]
           n == [r EXCEPT !.runs[i] = "done"]
           done == [visits EXCEPT ![v] = n]
<1>1. /\ r.page = "create" /\ Busy(r, i)
      /\ drafts' = [drafts EXCEPT ![v] = @ + 1]
      /\ UNCHANGED <<service, strict, lossy, details, renewals>>
      /\ \/ /\ Shows("wizard", AfterLeaving(done)) /\ fromCreate' = TRUE
         \/ visits' = done /\ UNCHANGED <<place, fromCreate, visit>>
  BY DEF DraftArrives, Busy, RunGoes
<1>2. /\ v \in 1..visit /\ Sound(r) /\ drafts[v] \in Nat
      /\ drafts[v] = 0 \/ (lossy /\ service = "rfq")
  BY <1>1, BusyVisit
<1>3. r \in VisitRecord /\ (service = "rfq" => r.lock)
  BY <1>1, <1>2 DEF Sound, Quiet, Run
<1>4. Goes(v, i, "done", n) /\ n.lock = r.lock /\ n.page = "create"
  BY <1>1, <1>3 DEF Goes, VisitRecord, Phase
<1> HIDE DEF n
<1>5. Sound(n) /\ Quiet(n)
  BY <1>1, <1>2, <1>4, GoesSound DEF Phase
<1>6. DraftOK(n, drafts[v] + 1) /\ n.isUnmounted = r.isUnmounted
  BY <1>2, <1>3, <1>4, <1>5 DEF DraftOK, Goes
<1>7. drafts[v] + 1 \in Nat /\ renewals' \in 0..MaxRenewals
  BY <1>1, <1>2 DEF EntryInv, TypeOK
<1>8. drafts' = [drafts EXCEPT ![v] = drafts[v] + 1]
  BY <1>1
<1>9. CASE visits' = done /\ UNCHANGED <<place, fromCreate, visit>>
  BY <1>1, <1>2, <1>5, <1>6, <1>7, <1>8, <1>9, OneStep
<1>10. CASE Shows("wizard", AfterLeaving(done)) /\ fromCreate' = TRUE
  <2>1. Good(done, drafts') /\ Marked(done) /\ visit \in 0..MaxVisits
    BY <1>2, <1>5, <1>6, <1>7, <1>8, InvIsGood, OneGood
  <2> HIDE DEF done
  <2>2. /\ Good(AfterLeaving(done), drafts')
        /\ \A w \in 1..visit : AfterLeaving(done)[w].isUnmounted
    BY <2>1, LeavingGood
  <2> QED
    BY <1>1, <1>10, <2>2, ShowStep DEF Page
<1> QED
  BY <1>1, <1>9, <1>10

LEMMA CreateFailsStep ==
  ASSUME EntryInv, NEW v \in Visit, NEW i \in Run, CreateFails(v, i)
  PROVE  EntryInv'
<1> DEFINE r == visits[v]
           n == [r EXCEPT !.runs[i] = "stuck",
                          !.lock = @ /\ ~ReleasedByFailure(r)]
<1>1. /\ r.page = "create" /\ Busy(r, i)
      /\ visits' = [visits EXCEPT ![v] = n]
      /\ UNCHANGED <<service, strict, lossy, details, place, fromCreate, visit,
                     renewals>>
  BY DEF CreateFails
<1>2. PICK created \in {0, 1} : /\ drafts' = [drafts EXCEPT ![v] = @ + created]
                                /\ lossy \/ created = 0
  BY DEF CreateFails
<1>3. /\ v \in 1..visit /\ Sound(r) /\ drafts[v] \in Nat
      /\ drafts[v] = 0 \/ (lossy /\ service = "rfq")
  BY <1>1, BusyVisit
<1>4. r \in VisitRecord
  BY <1>3 DEF Sound
<1>5. Goes(v, i, "stuck", n) /\ (service = "rfq" => ~n.lock)
  BY <1>1, <1>4 DEF Goes, VisitRecord, Phase, ReleasedByFailure
<1> HIDE DEF n
<1>6. Sound(n) /\ Quiet(n)
  BY <1>1, <1>3, <1>5, GoesSound DEF Phase
<1>7. DraftOK(n, drafts[v] + created) /\ n.isUnmounted = r.isUnmounted
  BY <1>2, <1>3, <1>5, <1>6 DEF DraftOK, Goes
<1>8. /\ drafts[v] + created \in Nat /\ renewals' \in 0..MaxRenewals
      /\ drafts' = [drafts EXCEPT ![v] = drafts[v] + created]
  BY <1>1, <1>2, <1>3 DEF EntryInv, TypeOK
<1> QED
  BY <1>1, <1>3, <1>6, <1>7, <1>8, OneStep

\* The effect of the visit shown runs again, behind its cleanup.
LEMMA AccountsChangeStep ==
  ASSUME EntryInv, AccountsChange
  PROVE  EntryInv'
<1> DEFINE r == visits[visit]
           c == Cleanup(r)
           n == Effect(c, details)
<1>1. /\ place \in Page /\ renewals' = renewals + 1 /\ renewals < MaxRenewals
      /\ visits' = [visits EXCEPT ![visit] = n]
      /\ UNCHANGED <<service, strict, lossy, details, place, fromCreate, visit,
                     drafts>>
  BY DEF AccountsChange
<1>2. /\ visit \in 0..MaxVisits /\ renewals' \in 0..MaxRenewals
      /\ drafts \in [Visit -> Nat] /\ details \in BOOLEAN
  BY <1>1, EntryAssumption DEF EntryInv, TypeOK
<1>3. CASE visit = 0
  <2>1. visits' = visits
    BY <1>1, <1>3 DEF EntryInv, TypeOK, Visit
  <2>2. Good(visits', drafts') /\ Marked(visits')
    BY <1>1, <2>1, InvIsGood
  <2>3. Good(visits, drafts)' /\ Marked(visits)'
    BY <1>1, <2>2, SameGood DEF Marked, IsShown
  <2> QED
    BY <1>1, <1>2, <2>3, NextIsInv DEF EntryInv, TypeOK
<1>4. CASE visit # 0
  <2>1. visit \in Visit /\ visit \in 1..visit
    BY <1>2, <1>4, EntryAssumption DEF Visit
  <2>2. Sound(r) /\ DraftOK(r, drafts[visit]) /\ drafts[visit] \in Nat
    BY <1>2, <2>1 DEF EntryInv, VisitOK
  <2>3. /\ Sound(c) /\ c.runs = r.runs /\ (c.lock \/ Quiet(c))
        /\ c.isUnmounted = r.isUnmounted /\ (r.lock => c.lock)
        /\ service # "rfq" => c.lock
    BY <2>2, CleanupSound
  <2> HIDE DEF c
  <2>4. /\ Sound(n) /\ n.isUnmounted = c.isUnmounted
        /\ c.lock => n = c
    BY <1>2, <2>3, EffectSound
  <2> HIDE DEF n
  <2>5. DraftOK(n, drafts[visit])
    BY <2>2, <2>3, <2>4 DEF DraftOK, Quiet, Busy
  <2>6. drafts' = [drafts EXCEPT ![visit] = drafts[visit]]
    BY <1>1, <1>2
  <2> QED
    BY <1>1, <1>2, <2>1, <2>2, <2>3, <2>4, <2>5, <2>6, OneStep
<1> QED
  BY <1>3, <1>4

\* The details of the account let a wizard shown begin to load.
LEMMA DetailsArriveStep ==
  ASSUME EntryInv, DetailsArrive
  PROVE  EntryInv'
<1> DEFINE Starts(v) == IsShown(v) /\ ReleasedAtEnd(visits[v])
<1>1. /\ visits' = [v \in Visit |-> IF Starts(v) THEN Effect(visits[v], TRUE)
                                                 ELSE visits[v]]
      /\ details' = TRUE
      /\ UNCHANGED <<service, strict, lossy, place, fromCreate, visit, drafts,
                     renewals>>
  BY DEF DetailsArrive
<1>2. ASSUME NEW v \in Visit
      PROVE  /\ Sound(visits'[v]) /\ DraftOK(visits'[v], drafts[v])
             /\ v > visit => Unused(visits'[v], drafts[v])
             /\ visits'[v].isUnmounted = visits[v].isUnmounted
  <2>1. VisitOK(v) /\ visit \in 0..MaxVisits
    BY DEF EntryInv, TypeOK
  <2>2. CASE ~Starts(v)
    BY <1>1, <2>1, <2>2 DEF VisitOK
  <2>3. CASE Starts(v)
    <3>1. /\ visits'[v] = Effect(visits[v], TRUE) /\ service = "rfq" /\ v = visit
      BY <1>1, <2>3 DEF IsShown, ReleasedAtEnd
    <3>2. Sound(visits[v]) /\ (visits[v].lock \/ Quiet(visits[v]))
      BY <2>1, <3>1 DEF VisitOK, Sound
    <3>3. /\ Sound(visits'[v]) /\ visits'[v].isUnmounted = visits[v].isUnmounted
          /\ visits[v].lock => visits'[v] = visits[v]
      BY <3>1, <3>2, EffectSound
    <3>4. ~(v > visit)
      BY <2>1, <3>1, EntryAssumption
    <3> QED
      BY <2>1, <3>1, <3>3, <3>4 DEF VisitOK, DraftOK
  <2> QED
    BY <2>2, <2>3
<1>3. visits' \in [Visit -> VisitRecord]
  <2>1. visits' = [v \in Visit |-> visits'[v]]
    BY <1>1
  <2>2. \A v \in Visit : visits'[v] \in VisitRecord
    BY <1>2 DEF Sound
  <2> QED
    BY <2>1, <2>2
<1>4. drafts \in [Visit -> Nat] /\ visit \in 0..MaxVisits
  BY DEF EntryInv, TypeOK
<1>5. Good(visits', drafts')
  BY <1>1, <1>2, <1>3, <1>4 DEF Good
<1>6. Good(visits, drafts)'
  BY <1>1, <1>5, SameGood
<1>7. 1..visit \subseteq Visit
  BY <1>4, EntryAssumption DEF Visit
<1>8. Marked(visits)'
  BY <1>1, <1>2, <1>7, InvIsGood DEF Marked, IsShown
<1> QED
  BY <1>1, <1>4, <1>6, <1>8, NextIsInv DEF EntryInv, TypeOK

\* What the user does: a page is opened, left, or returned to.
LEMMA UserStep ==
  ASSUME EntryInv, Leave \/ Back \/ \E p \in Page : Open(p)
  PROVE  EntryInv'
<1>1. Good(visits, drafts) /\ Marked(visits) /\ visit \in 0..MaxVisits
  BY InvIsGood
<1>2. CASE Leave
  BY <1>1, <1>2, GoneStep DEF Leave
<1>3. CASE Back
  <2>1. /\ Good(AfterLeaving(visits), drafts)
        /\ \A v \in 1..visit : AfterLeaving(visits)[v].isUnmounted
    BY <1>1, LeavingGood
  <2>2. /\ Shows("create", AfterLeaving(visits)) /\ fromCreate' = FALSE
        /\ UNCHANGED <<service, strict, lossy, details, drafts, renewals>>
    BY <1>3 DEF Back
  <2> QED
    BY <2>1, <2>2, ShowStep DEF Page
<1>4. ASSUME NEW p \in Page, Open(p) PROVE EntryInv'
  <2>1. /\ place = "elsewhere" /\ Shows(p, visits) /\ fromCreate' = FALSE
        /\ UNCHANGED <<service, strict, lossy, details, drafts, renewals>>
    BY <1>4 DEF Open
  <2>2. \A v \in 1..visit : visits[v].isUnmounted
    BY <1>1, <2>1 DEF Marked, IsShown, Page
  <2> QED
    BY <1>1, <2>1, <2>2, ShowStep
<1> QED
  BY <1>2, <1>3, <1>4

LEMMA NextEntry == EntryInv /\ [Next]_vars => EntryInv'
<1> SUFFICES ASSUME EntryInv, [Next]_vars PROVE EntryInv'
  OBVIOUS
<1>1. CASE Leave \/ Back \/ \E p \in Page : Open(p)
  BY <1>1, UserStep
<1>2. CASE AccountsChange
  BY <1>2, AccountsChangeStep
<1>3. CASE DetailsArrive
  BY <1>3, DetailsArriveStep
<1>4. ASSUME NEW v \in Visit, NEW i \in Run,
             TokenAnswered(v, i) \/ RequestAnswered(v, i)
      PROVE  EntryInv'
  <2>1. CASE TokenArrives(v, i)
    <3>1. Busy(visits[v], i) /\ FirstRequest \in {"first", "last"}
      BY <2>1 DEF TokenArrives, Busy, FirstRequest
    <3> QED
      BY <2>1, <3>1, GoesOn DEF TokenArrives
  <2>2. CASE FirstArrives(v, i)
    BY <2>2, GoesOn DEF FirstArrives, Busy
  <2>3. CASE TokenFails(v, i)
    BY <2>3, GoesOn DEF TokenFails, Busy, SetByCleanup
  <2>4. CASE LoadArrives(v, i)
    BY <2>4, LoadArrivesStep
  <2>5. CASE LoadFails(v, i)
    BY <2>5, LoadFailsStep
  <2>6. CASE DraftArrives(v, i)
    BY <2>6, DraftArrivesStep
  <2>7. CASE CreateFails(v, i)
    BY <2>7, CreateFailsStep
  <2> QED
    BY <1>4, <2>1, <2>2, <2>3, <2>4, <2>5, <2>6, <2>7
       DEF TokenAnswered, RequestAnswered
<1>5. CASE UNCHANGED vars
  <2>1. Good(visits', drafts') /\ Good(visits, drafts)
    BY <1>5, InvIsGood DEF vars
  <2>2. Good(visits, drafts)' /\ Marked(visits)'
    BY <1>5, <2>1, SameGood, InvIsGood DEF vars, Marked, IsShown
  <2> QED
    BY <1>5, <2>2, NextIsInv DEF vars, EntryInv, TypeOK
<1> QED
  BY <1>1, <1>2, <1>3, <1>4, <1>5 DEF Next

\* No visit ever has two runs of its work under way: the refs isLoading and
\* isSaving, or the cleanup that sets them, keep the effect from beginning
\* again (requestForQuote/index.tsx:62, create/index.tsx:24).
THEOREM OneRun == Spec => []OneRunPerVisit
<1>1. EntryInv => OneRunPerVisit
  BY DEF EntryInv, VisitOK, Sound, OneRunPerVisit
<1> QED
  BY <1>1, InitEntry, NextEntry, PTL DEF Spec

\* A visit to a create page makes one draft at most, however often its effect
\* runs, but for a request-for-quote page whose answer was lost.
THEOREM OneDraft == Spec => []OneDraftPerVisit
<1>1. EntryInv => OneDraftPerVisit
  <2> SUFFICES ASSUME EntryInv, NEW v \in Visit, drafts[v] > 1
               PROVE  lossy /\ service = "rfq"
    BY DEF OneDraftPerVisit
  <2> QED
    BY DEF EntryInv, TypeOK, VisitOK, DraftOK
<1> QED
  BY <1>1, InitEntry, NextEntry, PTL DEF Spec

\* The lock of a request-for-quote page is never left behind by a run that
\* is over, but by the one that made the draft.
THEOREM LocksAreOwned == Spec => []LockIsOwned
<1>1. EntryInv => LockIsOwned
  BY DEF EntryInv, VisitOK, Sound, Quiet, MadeDraft, LockIsOwned, Run
<1> QED
  BY <1>1, InitEntry, NextEntry, PTL DEF Spec

\* A failed load takes the user of a request-for-quote wizard to the
\* not-found page only from the visit it belongs to.
THEOREM FailuresStayAtHome == Spec => NoStrayNavigation
<1> DEFINE Stays == service = "rfq" /\ place' = "notFound" =>
                      \E v \in Visit, i \in Run :
                        IsShown(v) /\ Busy(visits[v], i) /\ ~Busy(visits'[v], i)
<1>1. EntryInv /\ [Next]_vars => [Stays]_<<place>>
  <2> SUFFICES ASSUME EntryInv, Next, service = "rfq", place' = "notFound",
                      place' # place
               PROVE  \E v \in Visit, i \in Run :
                        IsShown(v) /\ Busy(visits[v], i) /\ ~Busy(visits'[v], i)
    BY DEF vars
  <2>1. PICK v \in Visit, i \in Run : LoadFails(v, i)
    BY DEF Next, Open, Leave, Back, AccountsChange, DetailsArrive, TokenAnswered,
       RequestAnswered, TokenArrives, TokenFails, FirstArrives, LoadArrives,
       DraftArrives, CreateFails, Shows, Page
  <2> DEFINE r == visits[v]
             n == [r EXCEPT !.runs[i] = "done", !.lock = @ /\ ~ReleasedAtEnd(r)]
             ended == [visits EXCEPT ![v] = n]
  <2>2. /\ Busy(r, i) /\ ~r.isUnmounted /\ visits' = AfterLeaving(ended)
    BY <2>1 DEF LoadFails, Busy, ReleasedAtEnd
  <2>3. v \in 1..visit /\ Sound(r)
    BY <2>2, BusyVisit
  <2>4. IsShown(v)
    BY <2>2, <2>3 DEF EntryInv, TypeOK
  <2>5. n.runs = [r.runs EXCEPT ![i] = "done"] /\ n \in VisitRecord
    BY <2>3 DEF Sound, VisitRecord, Phase
  <2>6. Unmounted(n).runs = n.runs
    <3> HIDE DEF n
    <3> QED
      BY <2>5 DEF Unmounted, Cleanup, VisitRecord
  <2>7. ended[v] = n
    BY DEF EntryInv, TypeOK
  <2>8. visits'[v].runs = n.runs
    <3> HIDE DEF n, ended
    <3> QED
      BY <2>2, <2>4, <2>6, <2>7 DEF AfterLeaving
  <2>9. ~Busy(visits'[v], i)
    BY <2>3, <2>5, <2>8 DEF Busy, Sound, VisitRecord
  <2> QED
    BY <2>2, <2>4, <2>9
<1> QED
  BY <1>1, InitEntry, NextEntry, PTL DEF Spec, NoStrayNavigation

-----------------------------------------------------------------------------
(* The spinner of a wizard's page                                          *)
(*                                                                         *)
(* A wizard that waits for its statuses has a run that is getting them,    *)
(* or one whose token failed outside the try block.                        *)

HasWork(r) ==
  \E i \in Run : Busy(r, i) \/ (r.runs[i] = "stuck" /\ SetByCleanup(r))

\* A wizard that waits and may start has started.
Works(r, known) == known /\ ~r.ready => HasWork(r)

SpinnerHasARun == Spins => HasWork(visits[visit])

SpinInv ==
  /\ service # "rfq" => details
  /\ place = "wizard" => /\ visit \in Visit
                         /\ visits[visit].page = "wizard"
                         /\ Works(visits[visit], details)

\* The effect begins where the lock is free.
LEMMA EffectWorks ==
  ASSUME NEW r \in VisitRecord, NEW known, r.page = "wizard",
         r.lock => Works(r, known)
  PROVE  /\ Works(Effect(r, known), known)
         /\ Effect(r, known).page = "wizard"
<1>1. CASE MayStart(r, known)
  <2>1. Started(r).runs = [r.runs EXCEPT ![FreeRun(r)] = "token"]
        /\ Started(r).page = "wizard"
    BY StartedIs
  <2>2. FreeRun(r) \in Run
    BY DEF FreeRun, Run
  <2>3. Busy(Started(r), FreeRun(r))
    BY <2>1, <2>2 DEF Busy, VisitRecord
  <2> QED
    BY <1>1, <2>1, <2>2, <2>3 DEF Effect, Works, HasWork
<1>2. CASE ~MayStart(r, known)
  BY <1>2 DEF Effect, MayStart, Works
<1> QED
  BY <1>1, <1>2

\* A record with the same runs and statuses has the same work.
LEMMA SameWork ==
  ASSUME NEW r, NEW s, NEW known, Works(r, known), s.runs = r.runs, s.ready = r.ready
  PROVE  Works(s, known)
BY DEF Works, HasWork, Busy, SetByCleanup

\* The cleanup and unmounting take the lock and nothing else.
LEMMA CleanupIs ==
  ASSUME NEW r \in VisitRecord
  PROVE  /\ Cleanup(r) \in VisitRecord
         /\ Cleanup(r).page = r.page
         /\ Cleanup(r).runs = r.runs
         /\ Cleanup(r).ready = r.ready
BY DEF Cleanup, VisitRecord, SetByCleanup

LEMMA UnmountedIs ==
  ASSUME NEW r \in VisitRecord
  PROVE  /\ Remounted(Unmounted(r)) \in VisitRecord
         /\ Remounted(Unmounted(r)).page = r.page
         /\ Remounted(Unmounted(r)).runs = r.runs
         /\ Remounted(Unmounted(r)).ready = r.ready
<1>1. /\ Cleanup(r) \in VisitRecord /\ Cleanup(r).page = r.page
      /\ Cleanup(r).runs = r.runs /\ Cleanup(r).ready = r.ready
  BY CleanupIs
<1> QED
  BY <1>1 DEF Remounted, Unmounted, VisitRecord

\* A wizard's page that was just mounted has begun, in StrictMode too.
LEMMA MountedWorks ==
  ASSUME NEW p \in {"wizard"}, details \in BOOLEAN
  PROVE  Works(Mounted(p), details) /\ Mounted(p).page = p
<1> DEFINE first == Effect(Fresh(p), details)
           again == Remounted(Unmounted(first))
<1>1. Fresh(p) \in VisitRecord /\ Fresh(p).page = "wizard" /\ ~Fresh(p).lock
  BY DEF Fresh, VisitRecord, Page, Phase
<1>2. Works(first, details) /\ first.page = "wizard"
  BY <1>1, EffectWorks
<1>3. first \in VisitRecord
  BY <1>1, StartedIs DEF Effect
<1> HIDE DEF first
<1>4. again \in VisitRecord /\ again.page = "wizard" /\ Works(again, details)
  BY <1>2, <1>3, UnmountedIs, SameWork
<1> HIDE DEF again
<1>5. Works(Effect(again, details), details) /\ Effect(again, details).page = "wizard"
  BY <1>4, EffectWorks
<1> QED
  BY <1>2, <1>5 DEF Mounted, first, again

LEMMA InitSpin == Init => SpinInv
BY DEF Init, SpinInv

\* The wizard's page takes the place of another.
LEMMA ShowsWizard ==
  ASSUME TypeOK, SpinInv, NEW vs \in [Visit -> VisitRecord], Shows("wizard", vs),
         UNCHANGED <<service, details>>
  PROVE  SpinInv'
<1>1. visit + 1 \in Visit /\ details \in BOOLEAN
  BY EntryAssumption DEF TypeOK, Visit, Shows
<1>2. /\ visit' = visit + 1 /\ details' = details /\ service' = service
      /\ visits' = [vs EXCEPT ![visit + 1] = Mounted("wizard")]
  BY DEF Shows
<1>3. visits'[visit'] = Mounted("wizard")
  BY <1>1, <1>2
<1>4. /\ Mounted("wizard").page = "wizard"
      /\ Works(Mounted("wizard"), details)
  BY <1>1, MountedWorks
<1>5. Works(visits'[visit'], details)
  BY <1>3, <1>4
<1>6. Works(visits[visit], details)'
  BY <1>2, <1>5 DEF Works, HasWork, Busy, SetByCleanup
<1>7. visits'[visit'].page = "wizard" /\ visit' \in Visit
  BY <1>1, <1>2, <1>3, <1>4
<1>8. service' # "rfq" => details'
  BY <1>2 DEF SpinInv
<1> QED
  BY <1>6, <1>7, <1>8 DEF SpinInv

\* A step that leaves the wizard's visit with its work.
LEMMA StaysWorking ==
  ASSUME SpinInv, UNCHANGED <<service, details, visit>>,
         place' = "wizard" =>
           /\ place = "wizard"
           /\ visits'[visit].page = visits[visit].page
           /\ Works(visits[visit], details) => Works(visits'[visit], details)
  PROVE  SpinInv'
<1>1. ASSUME place' = "wizard"
      PROVE  Works(visits'[visit], details) /\ visits'[visit].page = "wizard"
             /\ visit \in Visit
  BY <1>1 DEF SpinInv
<1> QED
  BY <1>1 DEF SpinInv, Works, HasWork, SetByCleanup

LEMMA NextSpin ==
  ASSUME EntryInv, SpinInv, [Next]_vars
  PROVE  SpinInv'
<1>1. /\ TypeOK /\ visits \in [Visit -> VisitRecord] /\ details \in BOOLEAN
      /\ visit \in 0..MaxVisits
  BY InvIsGood DEF Good, EntryInv, TypeOK
<1>2. ASSUME NEW p \in Page, Open(p) PROVE SpinInv'
  <2>1. CASE p = "wizard"
    BY <1>1, <1>2, <2>1, ShowsWizard DEF Open
  <2>2. CASE p # "wizard"
    BY <1>2, <2>2 DEF Open, Shows, SpinInv
  <2> QED
    BY <2>1, <2>2
<1>3. CASE Leave
  BY <1>3 DEF Leave, SpinInv
<1>4. CASE Back
  BY <1>4 DEF Back, Shows, SpinInv
<1>5. CASE AccountsChange
  <2>1. ASSUME place = "wizard"
        PROVE  /\ visits'[visit].page = visits[visit].page
               /\ Works(visits'[visit], details)
    <3> DEFINE r == visits[visit]
    <3>1. r \in VisitRecord /\ r.page = "wizard" /\ Works(r, details) /\ visit \in Visit
      BY <1>1, <2>1 DEF SpinInv
    <3>2. visits'[visit] = Effect(Cleanup(r), details)
      BY <1>1, <1>5, <3>1 DEF AccountsChange
    <3> HIDE DEF r
    <3>3. Works(Cleanup(r), details) /\ Cleanup(r) \in VisitRecord
          /\ Cleanup(r).page = "wizard"
      BY <3>1, CleanupIs, SameWork
    <3>4. Works(Effect(Cleanup(r), details), details)
          /\ Effect(Cleanup(r), details).page = "wizard"
      BY <3>3, EffectWorks
    <3> QED
      BY <3>1, <3>2, <3>4 DEF r
  <2> QED
    BY <1>5, <2>1, StaysWorking DEF AccountsChange
<1>6. CASE DetailsArrive
  <2>1. service = "rfq" /\ service' = service /\ details' = TRUE
        /\ place' = place /\ visit' = visit
    BY <1>6 DEF DetailsArrive, SpinInv
  <2>2. ASSUME place = "wizard"
        PROVE  visits'[visit].page = "wizard" /\ Works(visits'[visit], TRUE)
    <3> DEFINE r == visits[visit]
    <3>1. r \in VisitRecord /\ r.page = "wizard" /\ visit \in Visit /\ Sound(r)
      BY <1>1, <2>2 DEF SpinInv, EntryInv, VisitOK
    <3>2. visits'[visit] = Effect(r, TRUE)
      BY <1>6, <2>1, <2>2, <3>1 DEF DetailsArrive, IsShown, ReleasedAtEnd, Page
    <3> HIDE DEF r
    <3>3. r.lock => HasWork(r)
      BY <2>1, <3>1 DEF Sound, Quiet, MadeDraft, HasWork, Run
    <3> QED
      BY <3>1, <3>2, <3>3, EffectWorks DEF Works
  <2>3. place' = "wizard" => Works(visits'[visit], details')
    BY <2>1, <2>2
  <2> QED
    BY <2>1, <2>2, <2>3 DEF SpinInv, Works, HasWork, SetByCleanup
<1>7. ASSUME NEW v \in Visit, NEW i \in Run,
             TokenArrives(v, i) \/ FirstArrives(v, i) \/ TokenFails(v, i)
      PROVE  SpinInv'
  <2>1. PICK phase \in {"first", "last", "stuck"} :
           /\ visits' = RunGoes(v, i, phase)
           /\ phase = "stuck" => SetByCleanup(visits[v])
    BY <1>7 DEF TokenArrives, FirstArrives, TokenFails, FirstRequest
  <2>2. ASSUME place = "wizard"
        PROVE  /\ visits'[visit].page = visits[visit].page
               /\ Works(visits'[visit], details)
    <3>1. visit \in Visit /\ Works(visits[visit], details)
      BY <2>2 DEF SpinInv
    <3>2. CASE v # visit
      BY <1>1, <2>1, <3>1, <3>2 DEF RunGoes
    <3>3. CASE v = visit
      <4>1. /\ visits'[visit].page = visits[visit].page
            /\ visits'[visit].runs[i] = phase
        BY <1>1, <2>1, <3>1, <3>3 DEF RunGoes, VisitRecord
      <4> QED
        BY <2>1, <3>3, <4>1 DEF Works, HasWork, Busy, SetByCleanup
    <3> QED
      BY <3>2, <3>3
  <2>3. UNCHANGED <<service, details, place, visit>>
    BY <1>7 DEF TokenArrives, FirstArrives, TokenFails
  <2> QED
    BY <2>2, <2>3, StaysWorking
<1>8. ASSUME NEW v \in Visit, NEW i \in Run, LoadArrives(v, i) PROVE SpinInv'
  <2>1. ASSUME place = "wizard"
        PROVE  /\ visits'[visit].page = visits[visit].page
               /\ Works(visits'[visit], details)
    <3>1. visit \in Visit /\ Works(visits[visit], details)
      BY <2>1 DEF SpinInv
    <3>2. CASE v # visit
      BY <1>1, <1>8, <3>1, <3>2 DEF LoadArrives
    <3>3. CASE v = visit
      <4>1. IsShown(v) /\ v \in 1..visit
        BY <1>1, <2>1, <3>1, <3>3, EntryAssumption DEF IsShown, Page, Visit
      <4>2. ~visits[v].isUnmounted
        BY <4>1 DEF EntryInv, TypeOK
      <4>3. /\ visits'[visit].page = visits[visit].page
            /\ visits'[visit].ready
        BY <1>1, <1>8, <3>1, <3>3, <4>1, <4>2 DEF LoadArrives, VisitRecord
      <4> QED
        BY <4>3 DEF Works
    <3> QED
      BY <3>2, <3>3
  <2>2. UNCHANGED <<service, details, place, visit>>
    BY <1>8 DEF LoadArrives
  <2> QED
    BY <2>1, <2>2, StaysWorking
<1>9. ASSUME NEW v \in Visit, NEW i \in Run, LoadFails(v, i) PROVE SpinInv'
  <2>1. ASSUME place' = "wizard"
        PROVE  /\ place = "wizard"
               /\ visits'[visit] = visits[visit]
    <3>1. /\ visits[v].isUnmounted
          /\ visits' = [visits EXCEPT ![v].runs[i] = "done",
                                      ![v].lock = @ /\ ~ReleasedAtEnd(visits[v])]
          /\ place' = place
      BY <1>9, <2>1 DEF LoadFails
    <3>2. visit \in Visit
      BY <2>1, <3>1 DEF SpinInv
    <3>3. v # visit
      <4>1. ASSUME v = visit PROVE IsShown(v) /\ v \in 1..visit
        BY <1>1, <2>1, <3>1, <4>1, EntryAssumption DEF IsShown, Page, Visit
      <4> QED
        BY <3>1, <4>1 DEF EntryInv, TypeOK
    <3> QED
      BY <1>1, <2>1, <3>1, <3>2, <3>3
  <2>2. UNCHANGED <<service, details, visit>>
    BY <1>9 DEF LoadFails
  <2> QED
    BY <2>1, <2>2, StaysWorking
<1>10. ASSUME NEW v \in Visit, NEW i \in Run, DraftArrives(v, i) PROVE SpinInv'
  <2> DEFINE done == RunGoes(v, i, "done")
  <2>1. done \in [Visit -> VisitRecord]
    BY <1>1 DEF RunGoes, VisitRecord, Phase
  <2>2. CASE IsShown(v)
    <3>1. AfterLeaving(done) \in [Visit -> VisitRecord]
      <4>1. ASSUME NEW r \in VisitRecord PROVE Unmounted(r) \in VisitRecord
        BY CleanupIs DEF Unmounted, VisitRecord
      <4> QED
        BY <2>1, <4>1 DEF AfterLeaving
    <3>2. Shows("wizard", AfterLeaving(done)) /\ UNCHANGED <<service, details>>
      BY <1>10, <2>2 DEF DraftArrives
    <3> HIDE DEF done
    <3> QED
      BY <1>1, <3>1, <3>2, ShowsWizard
  <2>3. CASE ~IsShown(v)
    <3>1. visits' = done /\ UNCHANGED <<service, details, place, visit>>
      BY <1>10, <2>3 DEF DraftArrives
    <3>2. ASSUME place = "wizard" PROVE visits'[visit] = visits[visit]
      <4>1. visit \in Visit /\ v # visit
        BY <2>3, <3>2 DEF SpinInv, IsShown, Page
      <4> QED
        BY <1>1, <3>1, <4>1 DEF RunGoes
    <3> QED
      BY <3>1, <3>2, StaysWorking
  <2> QED
    BY <2>2, <2>3
<1>11. ASSUME NEW v \in Visit, NEW i \in Run, CreateFails(v, i) PROVE SpinInv'
  <2>1. visits[v].page = "create" /\ UNCHANGED <<service, details, place, visit>>
    BY <1>11 DEF CreateFails
  <2>2. ASSUME place = "wizard" PROVE visits'[visit] = visits[visit]
    <3>1. visit \in Visit /\ v # visit
      BY <2>1, <2>2 DEF SpinInv
    <3> QED
      BY <1>1, <1>11, <3>1 DEF CreateFails
  <2> QED
    BY <2>1, <2>2, StaysWorking
<1>12. CASE UNCHANGED vars
  BY <1>12 DEF vars, SpinInv, Works, HasWork, Busy, SetByCleanup
<1> QED
  BY <1>2, <1>3, <1>4, <1>5, <1>6, <1>7, <1>8, <1>9, <1>10, <1>11, <1>12
     DEF Next, TokenAnswered, RequestAnswered

\* A wizard's page that waits for its statuses has a run that is getting them,
\* whatever StrictMode, renewed accounts and late details do with its lock;
\* or its run is over because the token failed outside the try block
\* (acceptQuote/index.tsx:60, ta/index.tsx:71).
THEOREM WizardsSpinForARun == Spec => []SpinnerHasARun
<1>1. SpinInv => SpinnerHasARun
  BY DEF SpinInv, SpinnerHasARun, Spins, Works
<1> QED
  BY <1>1, InitEntry, NextEntry, InitSpin, NextSpin, PTL DEF Spec

=============================================================================

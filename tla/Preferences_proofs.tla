-------------------------- MODULE Preferences_proofs --------------------------
(***************************************************************************)
(* Proofs about Preferences, for every set of daemons, configurations,     *)
(* durations and addresses.                                                *)
(***************************************************************************)
EXTENDS Preferences, TLAPS, WellFoundedInduction

\* What the user has not edited is as the form was filled.
Filled(f) ==
  f.base # NoConfig =>
    /\ "duration" \notin f.edited /\ f.base.duration \in Listed => f.duration = f.base.duration
    /\ "address" \notin f.edited /\ f.editable /\ f.base.address # NoServer /\ f.address # NoAddress
         => f.address = f.base.address

GoodForm(f) == f \in Dialog /\ ~(f.purge /\ f.ram) /\ Filled(f)

\* The database page shows what is stored in kv.
Reflects(f, kv) ==
  /\ f.type = kv["type"]
  /\ f.ram = (kv["ram"] = "true")
  /\ f.purge = (PurgeOf(kv) /\ ~(PurgeOf(kv) /\ kv["ram"] = "true"))

DbTypes == {"memory", "file"}

\* Once the UI runs, the type of the database is set.
SettingsInv ==
  /\ disk["type"] \in DbTypes \cup {"missing"} /\ settings["type"] \in DbTypes \cup {"missing"}
  /\ \A i \in 1 .. Len(todo) : todo[i][1] = "type" => todo[i][2] \in DbTypes
  /\ settings["type"] = "missing" => stage = "start" /\ todo # <<>> /\ Head(todo)[1] = "type"

StageInv ==
  /\ stage = "idle" => todo = <<>>
  /\ stage = "start" => ~form.made /\ ~form.open
  /\ stage \in {"apply", "save"} => form.open

\* While Apply or Save is under way a setting is what the form says, or will be.
Wanted(k) ==
  IF k = "type" THEN form.type ELSE IF k = "purge" THEN Boolean(form.purge) ELSE Boolean(form.ram)

ApplyInv ==
  stage \in {"apply", "save"} =>
    /\ \A i \in 1 .. Len(todo) : todo[i][2] = Wanted(todo[i][1])
    /\ \A k \in Keys : settings[k] = Wanted(k) \/ \E i \in 1 .. Len(todo) : todo[i][1] = k

\* A request that still counts names what its daemon is coming to; a daemon
\* without a stream is sent nothing.
DaemonInv(n) ==
  /\ n \notin up =>
       /\ n \notin inStep /\ outbox[n] = NoConfig
       /\ waiting[n] # NoConfig => ~waiting[n].current
  /\ waiting[n] # NoConfig /\ waiting[n].current => waiting[n].config = Coming(n)
  /\ n \in inStep => configs[n] = Coming(n)

\* The node combo box offers daemons that are known; none is ever removed.
ListedInv == form.listed \subseteq Known

IInv ==
  /\ TypeOK /\ GoodForm(form)
  /\ SettingsInv /\ StageInv /\ ApplyInv
  /\ HiddenFormIsStored /\ ListedInv
  /\ \A n \in Nodes : DaemonInv(n)
-----------------------------------------------------------------------------
(* The operations on the form.                                             *)

LEMMA PurgeKeeps ==
  ASSUME NEW f, GoodForm(f), NEW on \in BOOLEAN
  PROVE  /\ GoodForm(SetPurge(f, on))
         /\ SetPurge(f, on).purge = on
         /\ on => SetPurge(f, on).ram = (f.ram /\ f.purge)
         /\ SetPurge(f, on).type = f.type
         /\ SetPurge(f, on).open = f.open /\ SetPurge(f, on).listed = f.listed
<1>1. SetPurge(f, on) \in Dialog
  BY ZenonT(60) DEF GoodForm, SetPurge, Dialog
<1>2. ~(SetPurge(f, on).purge /\ SetPurge(f, on).ram)
  BY DEF GoodForm, SetPurge, Dialog
<1>3. Filled(SetPurge(f, on))
  BY DEF GoodForm, SetPurge, Dialog, Filled
<1> QED
  BY <1>1, <1>2, <1>3 DEF GoodForm, SetPurge, Dialog

LEMMA RamKeeps ==
  ASSUME NEW f, GoodForm(f), NEW on \in BOOLEAN
  PROVE  /\ GoodForm(SetRam(f, on))
         /\ SetRam(f, on).ram = on
         /\ SetRam(f, on).purge = (f.purge /\ ~(on /\ ~f.ram))
         /\ SetRam(f, on).type = f.type
         /\ SetRam(f, on).open = f.open /\ SetRam(f, on).listed = f.listed
<1>1. SetRam(f, on) \in Dialog
  BY ZenonT(60) DEF GoodForm, SetRam, Dialog
<1>2. ~(SetRam(f, on).purge /\ SetRam(f, on).ram)
  BY DEF GoodForm, SetRam, Dialog
<1>3. Filled(SetRam(f, on))
  BY DEF GoodForm, SetRam, Dialog, Filled
<1> QED
  BY <1>1, <1>2, <1>3 DEF GoodForm, SetRam, Dialog

LEMMA ConfigType ==
  ASSUME NEW c \in Texts, c # Unparsable
  PROVE  c \in Config /\ c # NoConfig
BY ConfigsAssumption DEF Texts

LEMMA FillKeeps ==
  ASSUME NEW f, GoodForm(f), NEW c \in Texts
  PROVE  /\ GoodForm(Fill(f, c))
         /\ Fill(f, c).type = f.type /\ Fill(f, c).purge = f.purge /\ Fill(f, c).ram = f.ram
         /\ Fill(f, c).open = f.open /\ Fill(f, c).listed = f.listed
<1>1. CASE c = Unparsable
  BY <1>1 DEF GoodForm, Fill, Dialog, Filled
<1>2. CASE c # Unparsable
  <2>1. /\ c \in Config /\ c.duration \in Listed \cup {d.duration : d \in Reported}
        /\ c.address \in Addresses \cup {NoAddress, NoServer}
    BY <1>2, ConfigType DEF Config
  <2> DEFINE d == IF c.duration \in Listed THEN c.duration ELSE FirstListed
             e == c.address # NoServer
             a == IF c.address = NoServer THEN f.address ELSE c.address
             g == [f EXCEPT !.duration = d, !.editable = e, !.address = a,
                            !.base = c, !.edited = {}]
  <2>2. d \in Listed /\ e \in BOOLEAN /\ a \in Addresses \cup {NoAddress}
    BY <2>1, NamesAssumption DEF GoodForm, Dialog
  <2>3. Fill(f, c) = g
    BY <1>2 DEF Fill, GoodForm, Dialog
  <2>4. (c.duration \in Listed => d = c.duration) /\ (c.address # NoServer => a = c.address)
    OBVIOUS
  <2> HIDE DEF d, e, a
  <2>5. /\ g \in Dialog /\ g.base = c /\ g.duration = d /\ g.address = a
        /\ g.type = f.type /\ g.purge = f.purge /\ g.ram = f.ram
        /\ g.open = f.open /\ g.listed = f.listed
    BY <2>1, <2>2 DEF GoodForm, Dialog
  <2> HIDE DEF g
  <2> QED
    BY <2>3, <2>4, <2>5 DEF GoodForm, Filled
<1> QED
  BY <1>1, <1>2

\* Fields that are neither a limit nor filled from a configuration.
LEMMA OthersKeep ==
  ASSUME NEW f, GoodForm(f), NEW g \in Dialog,
         g.purge = f.purge, g.ram = f.ram, g.base = f.base, g.edited = f.edited,
         g.duration = f.duration, g.address = f.address, g.editable = f.editable
  PROVE  GoodForm(g)
BY DEF GoodForm, Filled

LEMMA ChooseKeeps ==
  ASSUME TypeOK, NEW f, GoodForm(f), NEW n \in Known
  PROVE  /\ GoodForm(Choose(f, n))
         /\ Choose(f, n).type = f.type /\ Choose(f, n).purge = f.purge
         /\ Choose(f, n).ram = f.ram
         /\ Choose(f, n).open = f.open /\ Choose(f, n).listed = f.listed
<1> DEFINE g == [f EXCEPT !.choice = n]
           h == Fill(g, configs[n])
<1>1. n \in Nodes /\ configs[n] \in Texts
  BY DEF Known, TypeOK
<1>2. /\ g \in Dialog /\ g.type = f.type /\ g.purge = f.purge /\ g.ram = f.ram
      /\ g.open = f.open /\ g.listed = f.listed
      /\ g.base = f.base /\ g.edited = f.edited
      /\ g.duration = f.duration /\ g.address = f.address /\ g.editable = f.editable
  BY <1>1 DEF GoodForm, Dialog
<1> HIDE DEF g
<1>3. GoodForm(g)
  BY <1>2, OthersKeep
<1>4. /\ GoodForm(h) /\ h.type = f.type /\ h.purge = f.purge /\ h.ram = f.ram
      /\ h.open = f.open /\ h.listed = f.listed
  BY <1>1, <1>2, <1>3, FillKeeps
<1> HIDE DEF h
<1>5. Choose(f, n) = [h EXCEPT !.needsUpdate = FALSE]
  BY DEF Choose, g, h
<1>6. [h EXCEPT !.needsUpdate = FALSE] \in Dialog
  BY <1>4, ZenonT(60) DEF GoodForm, Dialog
<1>7. /\ [h EXCEPT !.needsUpdate = FALSE].type = h.type
      /\ [h EXCEPT !.needsUpdate = FALSE].open = h.open
      /\ [h EXCEPT !.needsUpdate = FALSE].listed = h.listed
      /\ [h EXCEPT !.needsUpdate = FALSE].purge = h.purge
      /\ [h EXCEPT !.needsUpdate = FALSE].ram = h.ram
      /\ [h EXCEPT !.needsUpdate = FALSE].base = h.base
      /\ [h EXCEPT !.needsUpdate = FALSE].edited = h.edited
      /\ [h EXCEPT !.needsUpdate = FALSE].duration = h.duration
      /\ [h EXCEPT !.needsUpdate = FALSE].address = h.address
      /\ [h EXCEPT !.needsUpdate = FALSE].editable = h.editable
  BY <1>4 DEF GoodForm, Dialog
<1> QED
  BY <1>4, <1>5, <1>6, <1>7, OthersKeep

\* A set of numbers that is not empty has a least one.
LEMMA LeastNumber ==
  ASSUME NEW T \in SUBSET Nat, T # {}
  PROVE  \E m \in T : \A k \in T : ~(k < m)
<1>1. PICK m \in T : \A k \in T : <<k, m>> \notin OpToRel(<, Nat)
  BY WFMin, NatLessThanWellFounded, Zenon
<1>2. \A k \in T : ~(k < m)
  BY <1>1, Zenon DEF OpToRel
<1> QED
  BY <1>2

\* The node combo box has a first item when it has any.
FirstKnown(i) ==
  NodeOrder[i] \in Known /\ \A j \in 1 .. i - 1 : NodeOrder[j] \notin Known

LEMMA FirstKnownIsKnown ==
  ASSUME Known # {}
  PROVE  NodeOrder[CHOOSE i \in DOMAIN NodeOrder :
                     /\ NodeOrder[i] \in Known
                     /\ \A j \in 1 .. i - 1 : NodeOrder[j] \notin Known] \in Known
<1> DEFINE T == {i \in DOMAIN NodeOrder : NodeOrder[i] \in Known}
<1>1. DOMAIN NodeOrder = 1 .. Len(NodeOrder) /\ Len(NodeOrder) \in Nat
  BY NamesAssumption
<1>2. T \in SUBSET Nat /\ T # {}
  BY <1>1 DEF Known, Nodes
<1>3. PICK m \in T : \A k \in T : ~(k < m)
  BY <1>2, LeastNumber
<1>4. m \in DOMAIN NodeOrder /\ FirstKnown(m)
  BY <1>1, <1>3 DEF FirstKnown
<1>5. (CHOOSE i \in DOMAIN NodeOrder : FirstKnown(i)) \in DOMAIN NodeOrder
      /\ FirstKnown(CHOOSE i \in DOMAIN NodeOrder : FirstKnown(i))
  BY <1>4
<1> QED
  BY <1>5 DEF FirstKnown

\* loadSettings() shows what is stored, whatever the form showed before.
LEMMA LoadKeeps ==
  ASSUME TypeOK, settings["type"] \in DbTypes, NEW f, GoodForm(f)
  PROVE  GoodForm(Load(f)) /\ Reflects(Load(f), settings) /\ Load(f).listed = Known
<1> DEFINE p == PurgeOf(settings)
           r == settings["ram"] = "true"
           f1 == [f EXCEPT !.type = settings["type"]]
           f2 == SetPurge(f1, p)
           f3 == SetRam(f2, r)
           f4 == [f3 EXCEPT !.listed = Known, !.needsUpdate = FALSE]
<1>1. p \in BOOLEAN /\ r \in BOOLEAN
  BY DEF PurgeOf
<1> HIDE DEF p, r
<1>2. GoodForm(f1) /\ f1.type = settings["type"]
  <2>1. /\ f1 \in Dialog /\ f1.type = settings["type"] /\ f1.purge = f.purge /\ f1.ram = f.ram
        /\ f1.base = f.base /\ f1.edited = f.edited
        /\ f1.duration = f.duration /\ f1.address = f.address /\ f1.editable = f.editable
    BY DEF GoodForm, Dialog, DbTypes
  <2> HIDE DEF f1
  <2> QED
    BY <2>1, OthersKeep
<1> HIDE DEF f1
<1>3. /\ GoodForm(f2) /\ f2.type = settings["type"] /\ f2.purge = p
      /\ p => f2.ram = (f1.ram /\ f1.purge)
  BY <1>1, <1>2, PurgeKeeps
<1>4. p => ~f2.ram
  BY <1>2, <1>3 DEF GoodForm
<1> HIDE DEF f2
<1>5. /\ GoodForm(f3) /\ f3.type = settings["type"] /\ f3.ram = r
      /\ f3.purge = (f2.purge /\ ~(r /\ ~f2.ram))
  BY <1>1, <1>3, RamKeeps
<1>6. f3.purge = (p /\ ~(p /\ r))
  BY <1>1, <1>3, <1>4, <1>5
<1> HIDE DEF f3
<1>7. /\ GoodForm(f4) /\ f4.type = f3.type /\ f4.ram = f3.ram /\ f4.purge = f3.purge
      /\ f4.listed = Known
  <2>1. Known \in SUBSET Nodes
    BY DEF Known
  <2>3. f4 \in Dialog
    BY <1>5, <2>1, ZenonT(60) DEF GoodForm, Dialog
  <2>2. /\ f4.type = f3.type /\ f4.purge = f3.purge /\ f4.ram = f3.ram
        /\ f4.base = f3.base /\ f4.edited = f3.edited /\ f4.listed = Known
        /\ f4.duration = f3.duration /\ f4.address = f3.address /\ f4.editable = f3.editable
    BY <1>5 DEF GoodForm, Dialog
  <2> HIDE DEF f4
  <2> QED
    BY <1>5, <2>2, <2>3, OthersKeep
<1>8. CASE Known = {}
  <2> DEFINE g == [f4 EXCEPT !.choice = NoNode]
  <2>1. Load(f) = g
    BY <1>8 DEF Load, p, r, f1, f2, f3, f4
  <2> HIDE DEF f4
  <2>2. /\ g \in Dialog /\ g.type = f4.type /\ g.purge = f4.purge /\ g.ram = f4.ram
        /\ g.base = f4.base /\ g.edited = f4.edited /\ g.listed = Known
        /\ g.duration = f4.duration /\ g.address = f4.address /\ g.editable = f4.editable
    BY <1>7 DEF GoodForm, Dialog
  <2> HIDE DEF g
  <2>3. GoodForm(g)
    BY <1>7, <2>2, OthersKeep
  <2> QED
    BY <1>5, <1>6, <1>7, <2>1, <2>2, <2>3 DEF Reflects, p, r
<1>9. CASE Known # {}
  <2> DEFINE n == NodeOrder[CHOOSE i \in DOMAIN NodeOrder :
                     /\ NodeOrder[i] \in Known
                     /\ \A j \in 1 .. i - 1 : NodeOrder[j] \notin Known]
  <2>1. n \in Known
    BY <1>9, FirstKnownIsKnown
  <2>2. Load(f) = Choose(f4, n)
    BY <1>9 DEF Load, p, r, f1, f2, f3, f4
  <2> HIDE DEF n, f4
  <2>3. /\ GoodForm(Choose(f4, n)) /\ Choose(f4, n).type = f4.type
        /\ Choose(f4, n).purge = f4.purge /\ Choose(f4, n).ram = f4.ram
        /\ Choose(f4, n).listed = Known
    BY <1>7, <2>1, ChooseKeeps
  <2> QED
    BY <1>5, <1>6, <1>7, <2>2, <2>3 DEF Reflects, p, r
<1> QED
  BY <1>8, <1>9
-----------------------------------------------------------------------------
(* The settings file.                                                      *)

LEMMA HeadAndTail ==
  ASSUME NEW S, NEW s \in Seq(S), s # <<>>
  PROVE  /\ Head(s) \in S /\ Head(s) = s[1] /\ 1 \in 1 .. Len(s)
         /\ Tail(s) \in Seq(S)
         /\ \A i \in 1 .. Len(Tail(s)) : i + 1 \in 1 .. Len(s) /\ Tail(s)[i] = s[i + 1]
         /\ \A i \in 1 .. Len(s) : i # 1 => i - 1 \in 1 .. Len(Tail(s)) /\ Tail(s)[i - 1] = s[i]
OBVIOUS

\* The part of the invariant that the daemons do not disturb, and the other.
FileInv == GoodForm(form) /\ SettingsInv /\ StageInv /\ ApplyInv /\ HiddenFormIsStored
WireInv == \A n \in Nodes : DaemonInv(n)

LEMMA SameFile ==
  ASSUME FileInv, UNCHANGED <<file, form>>
  PROVE  FileInv'
BY DEF FileInv, file, SettingsInv, StageInv, ApplyInv, Wanted, HiddenFormIsStored, GoodForm, Filled,
       PurgeOf

LEMMA SameWire ==
  ASSUME WireInv, UNCHANGED <<configs, wire>>
  PROVE  WireInv'
BY DEF WireInv, DaemonInv, Coming, wire

\* A setting of a handler is set, and written or not.
LEMMA SetKeeps ==
  ASSUME TypeOK, FileInv, todo # <<>>, todo' = Tail(todo),
         settings' = [settings EXCEPT ![Head(todo)[1]] = Head(todo)[2]],
         disk' = settings' \/ disk' = disk,
         UNCHANGED <<stage, form>>
  PROVE  /\ FileInv'
         /\ disk' \in [Keys -> Values] /\ settings' \in [Keys -> Values]
         /\ todo' \in Seq(Keys \X Values)
<1> DEFINE k == todo[1][1]
           v == todo[1][2]
<1>1. /\ todo \in Seq(Keys \X Values) /\ settings \in [Keys -> Values] /\ disk \in [Keys -> Values]
      /\ Keys = {"type", "purge", "ram"}
  BY DEF TypeOK, Keys
<1>2. /\ Head(todo) \in Keys \X Values /\ Head(todo) = todo[1] /\ 1 \in 1 .. Len(todo)
      /\ todo' \in Seq(Keys \X Values)
      /\ \A i \in 1 .. Len(todo') : i + 1 \in 1 .. Len(todo) /\ todo'[i] = todo[i + 1]
  BY <1>1, HeadAndTail
<1>3. k \in Keys /\ v \in Values /\ settings' = [settings EXCEPT ![k] = v]
  BY <1>2
<1>4. /\ settings' \in [Keys -> Values] /\ disk' \in [Keys -> Values]
      /\ settings'[k] = v /\ \A j \in Keys \ {k} : settings'[j] = settings[j]
  BY <1>1, <1>3
<1>5. SettingsInv'
  <2>1. k = "type" => v \in DbTypes
    BY <1>2 DEF FileInv, SettingsInv
  <2>2. settings["type"] = "missing" => k = "type"
    BY <1>2 DEF FileInv, SettingsInv
  <2>3. "type" \in Keys
    BY <1>1
  <2>4. settings'["type"] \in DbTypes \cup {"missing"} /\ settings'["type"] # "missing"
    BY <1>4, <2>1, <2>2, <2>3 DEF FileInv, SettingsInv, DbTypes
  <2>5. disk'["type"] \in DbTypes \cup {"missing"}
    BY <2>4 DEF FileInv, SettingsInv
  <2>6. \A i \in 1 .. Len(todo') : todo'[i][1] = "type" => todo'[i][2] \in DbTypes
    BY <1>2 DEF FileInv, SettingsInv
  <2> QED
    BY <2>4, <2>5, <2>6 DEF SettingsInv
<1>6. stage # "idle"
  BY DEF FileInv, StageInv
<1>7. ApplyInv'
  <2> SUFFICES ASSUME stage \in {"apply", "save"} PROVE ApplyInv'
    BY DEF ApplyInv
  <2>1. \A j : Wanted(j)' = Wanted(j)
    BY DEF Wanted
  <2>2. v = Wanted(k)
    <3>1. \A i \in 1 .. Len(todo) : todo[i][2] = Wanted(todo[i][1])
      BY DEF FileInv, ApplyInv
    <3> QED
      BY <1>2, <3>1
  <2>3. \A i \in 1 .. Len(todo') : todo'[i][2] = Wanted(todo'[i][1])
    <3>1. \A i \in 1 .. Len(todo) : todo[i][2] = Wanted(todo[i][1])
      BY DEF FileInv, ApplyInv
    <3> QED
      BY <1>2, <3>1
  <2>4. ASSUME NEW j \in Keys
        PROVE  settings'[j] = Wanted(j) \/ \E i \in 1 .. Len(todo') : todo'[i][1] = j
    <3>1. CASE j = k
      BY <1>4, <2>2, <3>1
    <3>2. CASE j # k /\ settings[j] = Wanted(j)
      BY <1>4, <3>2
    <3>3. ASSUME j # k, NEW i \in 1 .. Len(todo), todo[i][1] = j
          PROVE  \E l \in 1 .. Len(todo') : todo'[l][1] = j
      <4>0. i # 1
        BY <3>3
      <4>1. i - 1 \in 1 .. Len(todo') /\ todo'[i - 1] = todo[i]
        BY <1>1, <3>3, <4>0, HeadAndTail
      <4> QED
        BY <3>3, <4>1
    <3> QED
      BY <3>1, <3>2, <3>3 DEF FileInv, ApplyInv
  <2> QED
    BY <2>1, <2>3, <2>4 DEF ApplyInv
<1>8. StageInv' /\ HiddenFormIsStored' /\ GoodForm(form)'
  BY <1>6 DEF FileInv, StageInv, HiddenFormIsStored, GoodForm, Filled
<1> QED
  BY <1>2, <1>4, <1>5, <1>7, <1>8 DEF FileInv

LEMMA DefaultsOf ==
  ASSUME NEW kv \in [Keys -> Values], kv["type"] \in DbTypes \cup {"missing"}
  PROVE  /\ Defaults(kv) \in Seq(Keys \X Values)
         /\ \A i \in 1 .. Len(Defaults(kv)) :
              Defaults(kv)[i][1] = "type" => Defaults(kv)[i][2] \in DbTypes
         /\ kv["type"] = "missing" => Defaults(kv) # <<>> /\ Head(Defaults(kv))[1] = "type"
<1> DEFINE one == <<"type", "memory">>
           two == <<"purge", "true">>
<1>1. one \in Keys \X Values /\ two \in Keys \X Values
  BY DEF Keys, Values
<1>2. one[1] = "type" /\ one[2] \in DbTypes /\ two[1] # "type"
  BY DEF DbTypes
<1>3. \/ Defaults(kv) = <<>> /\ kv["type"] # "missing"
      \/ Defaults(kv) = <<one>>
      \/ Defaults(kv) = <<one>> \o <<two>>
  <2>1. <<one>> \o <<>> = <<one>>
    BY <1>1
  <2> QED
    BY <2>1 DEF Defaults
<1> HIDE DEF one, two
<1>4. CASE Defaults(kv) = <<>> /\ kv["type"] # "missing"
  BY <1>4
<1>5. CASE Defaults(kv) = <<one>>
  BY <1>1, <1>2, <1>5
<1>6. CASE Defaults(kv) = <<one>> \o <<two>>
  <2> DEFINE s == <<one>> \o <<two>>
  <2>1. s \in Seq(Keys \X Values) /\ Len(s) = 2 /\ s[1] = one /\ s[2] = two
    BY <1>1
  <2> HIDE DEF s
  <2>2. s # <<>> /\ Head(s) = one
    <3>1. Len(s) # 0 /\ Len(<<>>) = 0
      BY <2>1
    <3>2. s # <<>>
      BY <3>1, Zenon
    <3> QED
      BY <2>1, <3>2
  <2>3. ASSUME NEW i \in 1 .. Len(s) PROVE s[i] = one \/ s[i] = two
    <3>1. i = 1 \/ i = 2
      BY <2>1, <2>3
    <3> QED
      BY <2>1, <3>1
  <2> QED
    BY <1>2, <1>6, <2>1, <2>2, <2>3 DEF s
<1> QED
  BY <1>3, <1>4, <1>5, <1>6

LEMMA NewFormIsGood == GoodForm(NewForm) /\ ~NewForm.made /\ ~NewForm.open
BY NamesAssumption DEF NewForm, GoodForm, Dialog, Filled

\* The UI is started again, killed or not; the daemons run on.
LEMMA RestartKeeps ==
  ASSUME IInv, NEW kept \in {disk, settings}, Restart(kept), Happens
  PROVE  IInv'
<1>1. /\ kept \in [Keys -> Values] /\ kept["type"] \in DbTypes \cup {"missing"}
  BY DEF IInv, TypeOK, SettingsInv
<1>2. /\ disk' = kept /\ settings' = kept /\ stage' = "start" /\ todo' = Defaults(kept)
      /\ form' = NewForm /\ configs' = [n \in Nodes |-> NoConfig]
      /\ up' = {} /\ inStep' = {}
      /\ outbox' = [n \in Nodes |-> NoConfig] /\ waiting' = [n \in Nodes |-> NoConfig]
      /\ daemons' = daemons
  BY DEF Restart
<1>3. events' \in 0 .. MaxEvents
  BY BoundsAssumption DEF IInv, TypeOK, Happens
<1>4. /\ todo' \in Seq(Keys \X Values)
      /\ \A i \in 1 .. Len(todo') : todo'[i][1] = "type" => todo'[i][2] \in DbTypes
      /\ kept["type"] = "missing" => todo' # <<>> /\ Head(todo')[1] = "type"
  BY <1>1, <1>2, DefaultsOf
<1>5. TypeOK'
  BY <1>1, <1>2, <1>3, <1>4, NewFormIsGood DEF IInv, TypeOK, GoodForm
<1>6. SettingsInv' /\ StageInv' /\ ApplyInv' /\ HiddenFormIsStored' /\ GoodForm(form)'
  <2>1. SettingsInv'
    BY <1>1, <1>2, <1>4 DEF SettingsInv
  <2>2. StageInv' /\ ApplyInv' /\ HiddenFormIsStored'
    BY <1>2, NewFormIsGood DEF StageInv, ApplyInv, HiddenFormIsStored
  <2>3. GoodForm(form)'
    BY <1>2, NewFormIsGood
  <2> QED
    BY <2>1, <2>2, <2>3
<1>7. \A n \in Nodes : DaemonInv(n)'
  BY <1>2 DEF DaemonInv
<1>8. ListedInv'
  BY <1>2 DEF ListedInv, NewForm
<1> QED
  BY <1>5, <1>6, <1>7, <1>8 DEF IInv

LEMMA InitHolds == Init => IInv
<1> SUFFICES ASSUME Init PROVE IInv
  OBVIOUS
<1>1. disk \in [Keys -> Values] /\ disk["type"] \in DbTypes \cup {"missing"} /\ settings = disk
  <2>1. PICK t \in {"missing", "memory", "file"} :
          disk = [type |-> t, purge |-> "missing", ram |-> "missing"]
    BY DEF Init
  <2>2. disk = [k \in Keys |-> IF k = "type" THEN t ELSE "missing"]
    BY <2>1 DEF Keys
  <2> QED
    BY <2>2 DEF Init, Keys, Values, DbTypes
<1>2. /\ todo = Defaults(disk) /\ todo \in Seq(Keys \X Values)
      /\ \A i \in 1 .. Len(todo) : todo[i][1] = "type" => todo[i][2] \in DbTypes
      /\ disk["type"] = "missing" => todo # <<>> /\ Head(todo)[1] = "type"
  <2>1. todo = Defaults(disk)
    BY DEF Init
  <2> QED
    BY <1>1, <2>1, DefaultsOf
<1>3. daemons \in [Nodes -> Texts]
  BY ConfigsAssumption DEF Init, Texts
<1>4. TypeOK
  BY <1>1, <1>2, <1>3, NewFormIsGood, BoundsAssumption DEF Init, TypeOK, GoodForm
<1>5. SettingsInv
  BY <1>1, <1>2 DEF SettingsInv, Init
<1>6. StageInv /\ ApplyInv /\ HiddenFormIsStored /\ GoodForm(form)
  BY NewFormIsGood DEF Init, StageInv, ApplyInv, HiddenFormIsStored
<1>7. \A n \in Nodes : DaemonInv(n)
  BY DEF Init, DaemonInv
<1>8. ListedInv
  BY DEF Init, ListedInv, NewForm
<1> QED
  BY <1>4, <1>5, <1>6, <1>7, <1>8 DEF IInv
-----------------------------------------------------------------------------
(* What the user does in the dialog.                                       *)

LEMMA IdleFacts ==
  ASSUME IInv, stage = "idle"
  PROVE  TypeOK /\ settings["type"] \in DbTypes /\ GoodForm(form)
BY DEF IInv, SettingsInv

\* A step of the dialog leaves a good form, and one that is hidden shows what is stored.
LEMMA FormStepKeeps ==
  ASSUME IInv, FormStep, events' \in 0 .. MaxEvents, GoodForm(form'), form'.listed \subseteq Known,
         form'.made /\ ~form'.open => Reflects(form', settings)
  PROVE  IInv'
<1>1. /\ stage = "idle" /\ stage' = "idle" /\ todo = <<>>
      /\ UNCHANGED <<disk, settings, todo, configs, daemons, up, outbox, waiting, inStep>>
  BY DEF FormStep, file, wire, IInv, StageInv
<1>2. TypeOK'
  BY <1>1 DEF IInv, TypeOK, GoodForm
<1>3. SettingsInv' /\ StageInv' /\ ApplyInv'
  BY <1>1 DEF IInv, SettingsInv, StageInv, ApplyInv
<1>4. HiddenFormIsStored'
  BY <1>1 DEF HiddenFormIsStored, Reflects, PurgeOf
<1>5. \A n \in Nodes : DaemonInv(n)'
  BY <1>1, SameWire DEF IInv, WireInv, wire
<1>6. ListedInv'
  BY <1>1 DEF ListedInv, Known
<1> QED
  BY <1>2, <1>3, <1>4, <1>5, <1>6 DEF IInv

LEMMA OpenKeeps ==
  ASSUME IInv, Open
  PROVE  IInv'
<1> DEFINE g == IF form.made THEN form ELSE Load(form)
           h == [g EXCEPT !.made = TRUE, !.open = TRUE]
<1>1. FormStep /\ events' \in 0 .. MaxEvents /\ stage = "idle"
  BY DEF Open, FormStep, IInv, TypeOK
<1>2. GoodForm(g) /\ g.listed \subseteq Known
  BY <1>1, IdleFacts, LoadKeeps DEF IInv, ListedInv
<1>3. form' = h
  BY DEF Open
<1> HIDE DEF g
<1>4. /\ h \in Dialog /\ h.open = TRUE /\ h.listed = g.listed
      /\ h.purge = g.purge /\ h.ram = g.ram /\ h.base = g.base /\ h.edited = g.edited
      /\ h.duration = g.duration /\ h.address = g.address /\ h.editable = g.editable
  BY <1>2 DEF GoodForm, Dialog
<1> HIDE DEF h
<1>5. GoodForm(h)
  BY <1>2, <1>4, OthersKeep
<1> QED
  BY <1>1, <1>2, <1>3, <1>4, <1>5, FormStepKeeps

LEMMA CloseKeeps ==
  ASSUME IInv, Close
  PROVE  IInv'
<1> DEFINE g == Load(form)
           h == [g EXCEPT !.open = FALSE]
<1>1. FormStep /\ events' \in 0 .. MaxEvents /\ stage = "idle"
  BY BoundsAssumption DEF Close, FormStep, Happens, IInv, TypeOK
<1>2. GoodForm(g) /\ Reflects(g, settings) /\ g.listed = Known
  BY <1>1, IdleFacts, LoadKeeps
<1>3. form' = h
  BY DEF Close
<1> HIDE DEF g
<1>4. /\ h \in Dialog /\ h.type = g.type /\ h.listed = g.listed
      /\ h.purge = g.purge /\ h.ram = g.ram /\ h.base = g.base /\ h.edited = g.edited
      /\ h.duration = g.duration /\ h.address = g.address /\ h.editable = g.editable
  BY <1>2 DEF GoodForm, Dialog
<1> HIDE DEF h
<1>5. GoodForm(h) /\ Reflects(h, settings)
  BY <1>2, <1>4, OthersKeep DEF Reflects
<1> QED
  BY <1>1, <1>2, <1>3, <1>4, <1>5, FormStepKeeps

LEMMA ChangePageKeeps ==
  ASSUME IInv, ChangePage
  PROVE  IInv'
<1>1. /\ FormStep /\ events' \in 0 .. MaxEvents /\ form.open /\ GoodForm(form)
      /\ form.listed \subseteq Known
  BY DEF ChangePage, IInv, TypeOK, ListedInv
<1>2. PICK page \in {"Database", "Nodes"} : form' = [form EXCEPT !.page = page]
  BY DEF ChangePage
<1>3. /\ form' \in Dialog /\ form'.open = form.open /\ form'.listed = form.listed
      /\ form'.purge = form.purge /\ form'.ram = form.ram
      /\ form'.base = form.base /\ form'.edited = form.edited
      /\ form'.duration = form.duration /\ form'.address = form.address
      /\ form'.editable = form.editable
  BY <1>1, <1>2 DEF GoodForm, Dialog
<1>4. GoodForm(form')
  BY <1>1, <1>3, OthersKeep
<1> QED
  BY <1>1, <1>3, <1>4, FormStepKeeps

LEMMA EditDatabaseKeeps ==
  ASSUME IInv, EditDatabase
  PROVE  IInv'
<1>1. /\ FormStep /\ events' \in 0 .. MaxEvents /\ form.open /\ GoodForm(form)
      /\ form.listed \subseteq Known
  BY BoundsAssumption DEF EditDatabase, Happens, IInv, TypeOK, ListedInv
<1>2. ASSUME NEW type \in {"memory", "file"}, form' = [form EXCEPT !.type = type]
      PROVE  GoodForm(form') /\ form'.open /\ form'.listed = form.listed
  <2>1. /\ form' \in Dialog /\ form'.open = form.open /\ form'.listed = form.listed
        /\ form'.purge = form.purge /\ form'.ram = form.ram
        /\ form'.base = form.base /\ form'.edited = form.edited
        /\ form'.duration = form.duration /\ form'.address = form.address
        /\ form'.editable = form.editable
    BY <1>1, <1>2 DEF GoodForm, Dialog
  <2> QED
    BY <1>1, <2>1, OthersKeep
<1>3. ASSUME NEW on \in BOOLEAN, form' = SetPurge(form, on) \/ form' = SetRam(form, on)
      PROVE  GoodForm(form') /\ form'.open /\ form'.listed = form.listed
  BY <1>1, <1>3, PurgeKeeps, RamKeeps
<1>4. (~form.purge) \in BOOLEAN /\ (~form.ram) \in BOOLEAN
  <2>1. (~form.purge) \in BOOLEAN
    BY Zenon
  <2>2. (~form.ram) \in BOOLEAN
    BY Zenon
  <2> QED
    BY <2>1, <2>2
<1>5. \/ \E type \in {"memory", "file"} : form' = [form EXCEPT !.type = type]
      \/ form' = SetPurge(form, ~form.purge)
      \/ form' = SetRam(form, ~form.ram)
  BY DEF EditDatabase
<1>6. GoodForm(form') /\ form'.open /\ form'.listed = form.listed
  BY <1>2, <1>3, <1>4, <1>5, Zenon
<1> QED
  BY <1>1, <1>6, FormStepKeeps

LEMMA EditNodeKeeps ==
  ASSUME IInv, EditNode
  PROVE  IInv'
<1>1. /\ FormStep /\ events' \in 0 .. MaxEvents /\ form.open /\ GoodForm(form)
      /\ form.listed \subseteq Known
  <2>1. Happens /\ FormStep /\ form.open
    BY DEF EditNode
  <2> QED
    BY <2>1, BoundsAssumption DEF Happens, IInv, TypeOK, ListedInv
<1>2. ASSUME NEW d \in Listed,
             form' = [form EXCEPT !.duration = d, !.edited = @ \cup {"duration"}, !.needsUpdate = TRUE]
      PROVE  GoodForm(form') /\ form'.open /\ form'.listed = form.listed
  BY <1>1, <1>2 DEF GoodForm, Dialog, Filled
<1>3. ASSUME NEW a \in Addresses \cup {NoAddress},
             form' = [form EXCEPT !.address = a, !.edited = @ \cup {"address"}, !.needsUpdate = TRUE]
      PROVE  GoodForm(form') /\ form'.open /\ form'.listed = form.listed
  BY <1>1, <1>3 DEF GoodForm, Dialog, Filled
<1>4. ASSUME form' = [form EXCEPT !.all = ~@, !.needsUpdate = TRUE]
      PROVE  GoodForm(form') /\ form'.open /\ form'.listed = form.listed
  <2> DEFINE a == ~form.all
  <2>1. a \in BOOLEAN
    BY Zenon
  <2>2. form' = [form EXCEPT !.all = a, !.needsUpdate = TRUE]
    BY <1>4
  <2> DEFINE g == [form EXCEPT !.all = a, !.needsUpdate = TRUE]
  <2> HIDE DEF a
  <2>3. g \in Dialog
    BY <1>1, <2>1, ZenonT(60) DEF GoodForm, Dialog
  <2>4. /\ g.open = form.open /\ g.listed = form.listed /\ g.purge = form.purge /\ g.ram = form.ram
        /\ g.base = form.base /\ g.edited = form.edited
        /\ g.duration = form.duration /\ g.address = form.address /\ g.editable = form.editable
    BY <1>1 DEF GoodForm, Dialog
  <2> HIDE DEF g
  <2> QED
    BY <1>1, <2>2, <2>3, <2>4, OthersKeep DEF g
<1>5. GoodForm(form') /\ form'.open /\ form'.listed = form.listed
  BY <1>2, <1>3, <1>4 DEF EditNode
<1> QED
  BY <1>1, <1>5, FormStepKeeps

LEMMA ChooseNodeKeeps ==
  ASSUME IInv, ChooseNode
  PROVE  IInv'
<1>1. FormStep /\ events' \in 0 .. MaxEvents /\ form.open /\ GoodForm(form) /\ TypeOK
  BY BoundsAssumption DEF ChooseNode, Happens, IInv, TypeOK
<1>0. form.listed \subseteq Known
  BY DEF IInv, ListedInv
<1>2. PICK n \in form.listed : form' = Choose(form, n)
  BY DEF ChooseNode
<1>3. n \in Known
  BY <1>0, <1>2
<1>4. GoodForm(form') /\ form'.open = form.open /\ form'.listed = form.listed
  BY <1>1, <1>2, <1>3, ChooseKeeps
<1> QED
  BY <1>0, <1>1, <1>4, FormStepKeeps

LEMMA StartApplyKeeps ==
  ASSUME IInv, StartApply
  PROVE  IInv'
<1>1. /\ stage = "idle" /\ form.open /\ stage' \in {"apply", "save"}
      /\ todo' = <<<<"type", form.type>>,
                   <<"purge", Boolean(form.purge)>>,
                   <<"ram", Boolean(form.ram)>>>>
      /\ UNCHANGED <<disk, settings, form, configs, daemons, up, outbox, waiting, inStep>>
      /\ events' \in 0 .. MaxEvents
  BY BoundsAssumption DEF StartApply, Happens, wire, IInv, TypeOK
<1>2. /\ <<"type", form.type>> \in Keys \X Values
      /\ <<"purge", Boolean(form.purge)>> \in Keys \X Values
      /\ <<"ram", Boolean(form.ram)>> \in Keys \X Values
      /\ form.type \in DbTypes
  BY DEF IInv, TypeOK, Dialog, Boolean, Keys, Values, DbTypes
<1>3. todo' \in Seq(Keys \X Values)
  BY <1>1, <1>2
<1>4. TypeOK'
  BY <1>1, <1>3 DEF IInv, TypeOK
<1>5. SettingsInv'
  BY <1>1, <1>2, IdleFacts DEF IInv, SettingsInv, DbTypes
<1>6. StageInv' /\ HiddenFormIsStored'
  BY <1>1 DEF StageInv, HiddenFormIsStored
<1>7. ApplyInv'
  BY <1>1 DEF ApplyInv, Wanted, Keys
<1>8. \A n \in Nodes : DaemonInv(n)'
  BY <1>1, SameWire DEF IInv, WireInv, wire
<1>9. GoodForm(form)' /\ ListedInv'
  BY <1>1 DEF IInv, ListedInv, Known
<1> QED
  BY <1>4, <1>5, <1>6, <1>7, <1>8, <1>9 DEF IInv
-----------------------------------------------------------------------------
(* sync() and the rest of Apply and Save.                                  *)

\* What is written for a configuration: the form's duration and, where there is a
\* server on both sides, its address; nothing else if the form was filled from it.
LEMMA AppliedConfig ==
  ASSUME GoodForm(form), NEW c \in Config
  PROVE  /\ Applied(c) \in Config
         /\ Applied(c).duration = form.duration
         /\ form.editable /\ Applied(c).address # NoServer /\ form.address # NoAddress
              => Applied(c).address = form.address
         /\ c = form.base /\ c.duration \in Listed =>
              /\ "duration" \notin form.edited => Applied(c).duration = c.duration
              /\ "address" \notin form.edited => Applied(c).address = c.address
<1> DEFINE a == IF form.editable /\ c.address # NoServer /\ form.address # NoAddress
                THEN form.address ELSE c.address
<1>1. Applied(c) = [duration |-> form.duration, address |-> a]
  BY DEF Applied
<1>2. /\ form.duration \in Listed /\ form.address \in Addresses \cup {NoAddress}
      /\ c.address \in Addresses \cup {NoAddress, NoServer} /\ c # NoConfig
  BY ConfigsAssumption DEF GoodForm, Dialog, Config, Texts
<1>3. a \in Addresses \cup {NoAddress, NoServer}
  BY <1>2
<1>4. form.editable /\ a # NoServer /\ form.address # NoAddress => a = form.address
  OBVIOUS
<1>5. c = form.base /\ c.duration \in Listed =>
        /\ "duration" \notin form.edited => form.duration = c.duration
        /\ "address" \notin form.edited => a = c.address
  BY <1>2 DEF GoodForm, Filled
<1> HIDE DEF a
<1>6. Applied(c) \in Config
  BY <1>1, <1>2, <1>3 DEF Config
<1> QED
  BY <1>1, <1>4, <1>5, <1>6

Written == {n \in Targets : Sends /\ configs[n] # Unparsable}
Taken == {n \in Written \cap up : outbox[n] = NoConfig}

LEMMA FinishApplyEffect ==
  ASSUME TypeOK, GoodForm(form), FinishApply
  PROVE  /\ stage \in {"apply", "save"} /\ todo = <<>> /\ stage' = "idle"
         /\ disk' = settings /\ UNCHANGED <<settings, todo, daemons, up, events>>
         /\ Written \subseteq Nodes /\ Taken \subseteq Written \cap up
         /\ \A n \in Written : /\ configs[n] \in Config /\ configs[n] # NoConfig
                               /\ Applied(configs[n]) \in Config
                               /\ Applied(configs[n]) # NoConfig
         /\ configs' \in [Nodes -> Texts \cup {NoConfig}]
         /\ outbox' \in [Nodes -> Config \cup {NoConfig}]
         /\ waiting' \in [Nodes -> [config : Texts, current : BOOLEAN] \cup {NoConfig}]
         /\ \A n \in Nodes :
              /\ configs'[n] = IF n \in Written THEN Applied(configs[n]) ELSE configs[n]
              /\ outbox'[n] = IF n \in Taken THEN Applied(configs[n]) ELSE outbox[n]
              /\ waiting'[n] = IF n \in Taken /\ waiting[n] # NoConfig
                               THEN [waiting[n] EXCEPT !.current = FALSE] ELSE waiting[n]
         /\ inStep' = (inStep \ Written) \cup Taken
<1>1. /\ stage \in {"apply", "save"} /\ todo = <<>> /\ stage' = "idle"
      /\ disk' = settings /\ UNCHANGED <<settings, todo, daemons, up, events>>
      /\ configs' = [n \in Nodes |-> IF n \in Written THEN Applied(configs[n]) ELSE configs[n]]
      /\ outbox' = [n \in Nodes |-> IF n \in Taken THEN Applied(configs[n]) ELSE outbox[n]]
      /\ waiting' = [n \in Nodes |->
                       IF n \in Taken /\ waiting[n] # NoConfig
                       THEN [waiting[n] EXCEPT !.current = FALSE] ELSE waiting[n]]
      /\ inStep' = (inStep \ Written) \cup Taken
  BY DEF FinishApply, Written, Taken
<1>2. Written \subseteq Nodes /\ Taken \subseteq Written \cap up
  BY DEF Written, Taken, Targets, Known
<1>3. ASSUME NEW n \in Written
      PROVE  /\ configs[n] \in Config /\ configs[n] # NoConfig
             /\ Applied(configs[n]) \in Config /\ Applied(configs[n]) # NoConfig
  <2>1. configs[n] \in Config
    BY <1>2, <1>3, ConfigType DEF Written, Targets, Known, TypeOK
  <2>2. Applied(configs[n]) \in Config
    BY <2>1, AppliedConfig
  <2> QED
    BY <2>1, <2>2, ConfigsAssumption DEF Texts
<1>4. configs' \in [Nodes -> Texts \cup {NoConfig}]
  BY <1>1, <1>3 DEF TypeOK, Texts
<1>5. outbox' \in [Nodes -> Config \cup {NoConfig}]
  BY <1>1, <1>2, <1>3 DEF TypeOK
<1>6. waiting' \in [Nodes -> [config : Texts, current : BOOLEAN] \cup {NoConfig}]
  BY <1>1 DEF TypeOK
<1> QED
  BY <1>1, <1>2, <1>3, <1>4, <1>5, <1>6

LEMMA FinishApplyForm ==
  ASSUME TypeOK, GoodForm(form), FinishApply
  PROVE  /\ GoodForm(form')
         /\ form'.open = (stage = "apply")
         /\ form'.type = form.type /\ form'.purge = form.purge /\ form'.ram = form.ram
         /\ form'.listed = form.listed
<1> DEFINE o == stage = "apply"
           u == form.needsUpdate /\ ~Sends
           b == IF form.choice \in Written THEN configs'[form.choice] ELSE form.base
           e == IF form.choice \in Written THEN {} ELSE form.edited
           g == [form EXCEPT !.open = o, !.needsUpdate = u, !.base = b, !.edited = e]
<1>1. form' = g
  BY DEF FinishApply, Written
<1>2. o \in BOOLEAN /\ u \in BOOLEAN
  BY DEF GoodForm, Dialog
<1>3. CASE form.choice \in Written
  <2> DEFINE c == configs[form.choice]
  <2>1. /\ c \in Config /\ b = Applied(c) /\ e = {}
    BY <1>3, FinishApplyEffect
  <2>2. /\ b \in Config /\ b.duration = form.duration
        /\ form.editable /\ b.address # NoServer /\ form.address # NoAddress
             => b.address = form.address
    BY <2>1, AppliedConfig
  <2> HIDE DEF c, b, e, o, u
  <2>4. g \in Dialog
    BY <1>2, <2>1, <2>2, ZenonT(60) DEF GoodForm, Dialog
  <2>3. /\ g.open = o /\ g.base = b
        /\ g.purge = form.purge /\ g.ram = form.ram /\ g.type = form.type
        /\ g.duration = form.duration /\ g.address = form.address /\ g.editable = form.editable
        /\ g.listed = form.listed
    BY DEF GoodForm, Dialog
  <2> HIDE DEF g
  <2> QED
    BY <1>1, <2>2, <2>3, <2>4 DEF GoodForm, Filled, o
<1>4. CASE form.choice \notin Written
  <2>1. b = form.base /\ e = form.edited
    BY <1>4
  <2> HIDE DEF b, e, o, u
  <2>4. g \in Dialog
    BY <1>2, <2>1, ZenonT(60) DEF GoodForm, Dialog
  <2>2. /\ g.open = o /\ g.base = form.base /\ g.edited = form.edited
        /\ g.purge = form.purge /\ g.ram = form.ram /\ g.type = form.type
        /\ g.duration = form.duration /\ g.address = form.address /\ g.editable = form.editable
        /\ g.listed = form.listed
    BY <2>1 DEF GoodForm, Dialog
  <2> HIDE DEF g
  <2>3. GoodForm(g)
    BY <2>2, <2>4, OthersKeep
  <2> QED
    BY <1>1, <2>2, <2>3 DEF o
<1> QED
  BY <1>3, <1>4

LEMMA FinishApplyKeeps ==
  ASSUME IInv, FinishApply
  PROVE  IInv'
<1>1. TypeOK /\ GoodForm(form)
  BY DEF IInv
<1>2. /\ stage \in {"apply", "save"} /\ todo = <<>> /\ stage' = "idle"
      /\ disk' = settings /\ UNCHANGED <<settings, todo, daemons, up, events>>
      /\ Written \subseteq Nodes /\ Taken \subseteq Written \cap up
      /\ \A n \in Written : /\ configs[n] # NoConfig /\ Applied(configs[n]) # NoConfig
      /\ configs' \in [Nodes -> Texts \cup {NoConfig}]
      /\ outbox' \in [Nodes -> Config \cup {NoConfig}]
      /\ waiting' \in [Nodes -> [config : Texts, current : BOOLEAN] \cup {NoConfig}]
      /\ \A n \in Nodes :
           /\ configs'[n] = IF n \in Written THEN Applied(configs[n]) ELSE configs[n]
           /\ outbox'[n] = IF n \in Taken THEN Applied(configs[n]) ELSE outbox[n]
           /\ waiting'[n] = IF n \in Taken /\ waiting[n] # NoConfig
                            THEN [waiting[n] EXCEPT !.current = FALSE] ELSE waiting[n]
      /\ inStep' = (inStep \ Written) \cup Taken
  BY <1>1, FinishApplyEffect
<1>3. /\ GoodForm(form') /\ form'.open = (stage = "apply")
      /\ form'.type = form.type /\ form'.purge = form.purge /\ form'.ram = form.ram
      /\ form'.listed = form.listed
  BY <1>1, FinishApplyForm
<1>4. TypeOK'
  <2>1. inStep' \subseteq Nodes /\ form' \in Dialog
    BY <1>1, <1>2, <1>3 DEF TypeOK, GoodForm
  <2> QED
    BY <1>1, <1>2, <2>1 DEF TypeOK
<1>5. SettingsInv' /\ StageInv' /\ ApplyInv'
  BY <1>2 DEF IInv, SettingsInv, StageInv, ApplyInv
<1>6. HiddenFormIsStored'
  <2>1. /\ settings["type"] = form.type
        /\ settings["purge"] = Boolean(form.purge)
        /\ settings["ram"] = Boolean(form.ram)
    <3>1. \A k \in Keys : settings[k] = Wanted(k)
      BY <1>2 DEF IInv, ApplyInv
    <3> QED
      BY <3>1 DEF Wanted, Keys
  <2>2. form.purge \in BOOLEAN /\ form.ram \in BOOLEAN /\ ~(form.purge /\ form.ram)
    BY <1>1 DEF GoodForm, Dialog
  <2>3. (settings["ram"] = "true") = form.ram /\ PurgeOf(settings) = form.purge
    BY <2>1, <2>2 DEF Boolean, PurgeOf
  <2>4. PurgeOf(settings)' = PurgeOf(settings)
    BY <1>2 DEF PurgeOf
  <2>5. /\ form'.type = settings["type"]
        /\ form'.ram = (settings["ram"] = "true")
        /\ form'.purge = (PurgeOf(settings) /\ ~(PurgeOf(settings) /\ settings["ram"] = "true"))
    BY <1>3, <2>1, <2>2, <2>3
  <2> QED
    BY <1>2, <2>4, <2>5 DEF HiddenFormIsStored
<1>7. ListedInv'
  BY <1>2, <1>3 DEF IInv, ListedInv, Known
<1>8. ASSUME NEW n \in Nodes PROVE DaemonInv(n)'
  <2>0. DaemonInv(n)
    BY DEF IInv
  <2>1. CASE n \in Taken
    <3>1. /\ outbox'[n] = Applied(configs[n]) /\ configs'[n] = outbox'[n]
          /\ outbox'[n] # NoConfig /\ n \in up'
      BY <1>2, <2>1
    <3>2. waiting'[n] # NoConfig => ~waiting'[n].current
      BY <1>1, <1>2, <2>1 DEF TypeOK
    <3> QED
      BY <3>1, <3>2 DEF DaemonInv, Coming
  <2>2. CASE n \notin Taken
    <3>1. /\ outbox'[n] = outbox[n] /\ waiting'[n] = waiting[n] /\ daemons' = daemons /\ up' = up
          /\ n \in inStep' => n \in inStep /\ configs'[n] = configs[n]
      BY <1>2, <2>2
    <3>2. Coming(n)' = Coming(n)
      BY <3>1 DEF Coming
    <3> QED
      BY <2>0, <3>1, <3>2 DEF DaemonInv
  <2> QED
    BY <2>1, <2>2
<1> QED
  BY <1>3, <1>4, <1>5, <1>6, <1>7, <1>8 DEF IInv
-----------------------------------------------------------------------------
(* The daemons.                                                            *)

\* A step that leaves the dialog and the file alone, and touches one daemon.
LEMMA OneDaemon ==
  ASSUME IInv, UNCHANGED <<file, form>>, TypeOK', NEW n \in Nodes, DaemonInv(n)',
         configs[n] # NoConfig => configs'[n] # NoConfig,
         \A m \in Nodes \ {n} :
           /\ configs'[m] = configs[m] /\ daemons'[m] = daemons[m]
           /\ outbox'[m] = outbox[m] /\ waiting'[m] = waiting[m]
           /\ (m \in up' <=> m \in up) /\ (m \in inStep' <=> m \in inStep)
  PROVE  IInv'
<1>1. FileInv'
  BY SameFile DEF IInv, FileInv
<1>2. ListedInv'
  BY DEF IInv, ListedInv, Known
<1>3. ASSUME NEW m \in Nodes PROVE DaemonInv(m)'
  <2>1. CASE m = n
    BY <2>1
  <2>2. CASE m # n
    <3>1. DaemonInv(m)
      BY DEF IInv
    <3>2. Coming(m)' = Coming(m)
      BY <2>2 DEF Coming
    <3> QED
      BY <2>2, <3>1, <3>2 DEF DaemonInv
  <2> QED
    BY <2>1, <2>2
<1> QED
  BY <1>1, <1>2, <1>3 DEF IInv, FileInv

LEMMA ConnectKeeps ==
  ASSUME IInv, NEW n \in Nodes, Connect(n)
  PROVE  IInv'
<1>1. /\ n \notin up /\ up' = up \cup {n}
      /\ waiting' = [waiting EXCEPT ![n] = [config |-> daemons[n], current |-> TRUE]]
      /\ UNCHANGED <<file, form, configs, daemons, outbox, inStep, events>>
  BY DEF Connect
<1>2. TypeOK /\ DaemonInv(n) /\ daemons[n] \in Texts
  BY DEF IInv, TypeOK
<1>3. TypeOK'
  BY <1>1, <1>2 DEF TypeOK, file
<1>4. DaemonInv(n)'
  <2>1. /\ waiting'[n].current = TRUE /\ waiting'[n].config = daemons[n]
        /\ outbox[n] = NoConfig /\ n \notin inStep
    BY <1>1, <1>2 DEF TypeOK, DaemonInv
  <2> QED
    BY <1>1, <2>1 DEF DaemonInv, Coming
<1>5. \A m \in Nodes \ {n} : waiting'[m] = waiting[m] /\ (m \in up' <=> m \in up)
  BY <1>1, <1>2 DEF TypeOK
<1> QED
  BY <1>1, <1>3, <1>4, <1>5, OneDaemon

LEMMA OnSubscribedKeeps ==
  ASSUME IInv, NEW n \in Nodes, OnSubscribed(n)
  PROVE  IInv'
<1>1. /\ waiting[n] # NoConfig
      /\ configs' = [configs EXCEPT ![n] = waiting[n].config]
      /\ inStep' = IF waiting[n].current THEN inStep \cup {n} ELSE inStep \ {n}
      /\ waiting' = [waiting EXCEPT ![n] = NoConfig]
      /\ UNCHANGED <<file, form, daemons, up, outbox, events>>
  BY DEF OnSubscribed
<1>2. /\ TypeOK /\ DaemonInv(n)
      /\ waiting[n] \in [config : Texts, current : BOOLEAN]
      /\ waiting[n].config \in Texts /\ waiting[n].config # NoConfig
  BY <1>1, ConfigsAssumption DEF IInv, TypeOK
<1>3. TypeOK'
  BY <1>1, <1>2 DEF TypeOK, file
<1>4. /\ configs'[n] = waiting[n].config /\ waiting'[n] = NoConfig
      /\ n \in inStep' <=> waiting[n].current
      /\ \A m \in Nodes \ {n} : /\ configs'[m] = configs[m] /\ waiting'[m] = waiting[m]
                               /\ (m \in inStep' <=> m \in inStep)
  BY <1>1, <1>2 DEF TypeOK
<1>5. DaemonInv(n)'
  BY <1>1, <1>2, <1>4 DEF DaemonInv, Coming
<1> QED
  BY <1>1, <1>2, <1>3, <1>4, <1>5, OneDaemon

LEMMA ObeyKeeps ==
  ASSUME IInv, NEW n \in Nodes, Obey(n)
  PROVE  IInv'
<1>1. /\ outbox[n] # NoConfig
      /\ daemons' = [daemons EXCEPT ![n] = outbox[n]]
      /\ outbox' = [outbox EXCEPT ![n] = NoConfig]
      /\ UNCHANGED <<file, form, configs, up, waiting, inStep, events>>
  BY DEF Obey
<1>2. TypeOK /\ DaemonInv(n) /\ outbox[n] \in Texts
  BY <1>1 DEF IInv, TypeOK, Texts
<1>3. TypeOK'
  BY <1>1, <1>2 DEF TypeOK, file
<1>4. /\ daemons'[n] = outbox[n] /\ outbox'[n] = NoConfig
      /\ \A m \in Nodes \ {n} : daemons'[m] = daemons[m] /\ outbox'[m] = outbox[m]
  BY <1>1, <1>2 DEF TypeOK
<1>5. Coming(n)' = Coming(n)
  BY <1>1, <1>4 DEF Coming
<1>6. DaemonInv(n)'
  BY <1>1, <1>2, <1>4, <1>5 DEF DaemonInv
<1> QED
  BY <1>1, <1>3, <1>4, <1>6, OneDaemon

LEMMA DisconnectKeeps ==
  ASSUME IInv, NEW n \in Nodes, Disconnect(n)
  PROVE  IInv'
<1>1. /\ up' = up \ {n} /\ inStep' = inStep \ {n}
      /\ outbox' = [outbox EXCEPT ![n] = NoConfig]
      /\ waiting' = IF waiting[n] = NoConfig THEN waiting
                    ELSE [waiting EXCEPT ![n].current = FALSE]
      /\ UNCHANGED <<file, form, configs, daemons>>
  BY DEF Disconnect
<1>2. TypeOK /\ events' \in 0 .. MaxEvents
  BY BoundsAssumption DEF Disconnect, Happens, IInv, TypeOK
<1>3. /\ waiting' \in [Nodes -> [config : Texts, current : BOOLEAN] \cup {NoConfig}]
      /\ waiting'[n] # NoConfig => waiting'[n].current = FALSE
      /\ \A m \in Nodes \ {n} : waiting'[m] = waiting[m]
  <2>1. CASE waiting[n] = NoConfig
    BY <1>1, <1>2, <2>1 DEF TypeOK
  <2>2. CASE waiting[n] # NoConfig
    <3> DEFINE w == [waiting[n] EXCEPT !.current = FALSE]
    <3>1. w \in [config : Texts, current : BOOLEAN] /\ w.current = FALSE
      BY <1>2, <2>2 DEF TypeOK
    <3>2. waiting' = [waiting EXCEPT ![n] = w]
      BY <1>1, <2>2
    <3> HIDE DEF w
    <3> QED
      BY <1>2, <3>1, <3>2 DEF TypeOK
  <2> QED
    BY <2>1, <2>2
<1>4. TypeOK'
  BY <1>1, <1>2, <1>3 DEF TypeOK, file
<1>5. outbox'[n] = NoConfig /\ \A m \in Nodes \ {n} : outbox'[m] = outbox[m]
  BY <1>1, <1>2 DEF TypeOK
<1>6. DaemonInv(n)'
  BY <1>1, <1>3, <1>5 DEF DaemonInv
<1> QED
  BY <1>1, <1>3, <1>4, <1>5, <1>6, OneDaemon

LEMMA EditByHandKeeps ==
  ASSUME IInv, NEW n \in Nodes, EditByHand(n)
  PROVE  IInv'
<1>1. PICK c \in Reported : daemons' = [daemons EXCEPT ![n] = c]
  BY DEF EditByHand
<1>2. n \notin up /\ UNCHANGED <<file, form, configs, up, outbox, waiting, inStep>>
  BY DEF EditByHand
<1>3. TypeOK /\ DaemonInv(n) /\ events' \in 0 .. MaxEvents /\ c \in Texts
  BY BoundsAssumption, ConfigsAssumption DEF EditByHand, Happens, IInv, TypeOK, Texts
<1>4. TypeOK'
  BY <1>1, <1>2, <1>3 DEF TypeOK, file
<1>5. \A m \in Nodes \ {n} : daemons'[m] = daemons[m]
  BY <1>1, <1>3 DEF TypeOK
<1>6. DaemonInv(n)'
  BY <1>2, <1>3 DEF DaemonInv
<1> QED
  BY <1>2, <1>4, <1>5, <1>6, OneDaemon

LEMMA SettingStepsKeep ==
  ASSUME IInv, SetNext \/ SetNextUnwritten \/ Started
  PROVE  IInv'
<1>1. CASE SetNext \/ SetNextUnwritten
  <2>1. /\ todo # <<>> /\ todo' = Tail(todo)
        /\ settings' = [settings EXCEPT ![Head(todo)[1]] = Head(todo)[2]]
        /\ disk' = settings' \/ disk' = disk
        /\ UNCHANGED <<stage, form, configs, wire>>
    BY <1>1 DEF SetNext, SetNextUnwritten
  <2>2. TypeOK /\ FileInv /\ WireInv /\ events' \in 0 .. MaxEvents
    BY <1>1, BoundsAssumption
    DEF SetNext, SetNextUnwritten, Happens, IInv, TypeOK, FileInv, WireInv
  <2>3. /\ FileInv' /\ disk' \in [Keys -> Values] /\ settings' \in [Keys -> Values]
        /\ todo' \in Seq(Keys \X Values)
    BY <2>1, <2>2, SetKeeps
  <2>4. TypeOK'
    BY <2>1, <2>2, <2>3 DEF TypeOK, wire
  <2>5. WireInv' /\ ListedInv'
    BY <2>1, <2>2, SameWire DEF IInv, ListedInv, Known
  <2> QED
    BY <2>3, <2>4, <2>5 DEF IInv, FileInv, WireInv
<1>2. CASE Started
  <2>1. /\ stage = "start" /\ todo = <<>> /\ stage' = "idle"
        /\ UNCHANGED <<disk, settings, todo, form, configs, wire, events>>
    BY <1>2 DEF Started
  <2>2. TypeOK' /\ GoodForm(form)' /\ ListedInv'
    BY <2>1 DEF IInv, TypeOK, wire, ListedInv, Known
  <2>3. SettingsInv' /\ StageInv' /\ ApplyInv' /\ HiddenFormIsStored'
    BY <2>1 DEF IInv, SettingsInv, StageInv, ApplyInv, HiddenFormIsStored
  <2>4. WireInv'
    BY <2>1, SameWire DEF IInv, WireInv
  <2> QED
    BY <2>2, <2>3, <2>4 DEF IInv, WireInv
<1> QED
  BY <1>1, <1>2

\* One step per action.
LEMMA Step ==
  ASSUME IInv, [Next]_vars
  PROVE  IInv'
<1>1. CASE SetNext \/ SetNextUnwritten \/ Started
  BY <1>1, SettingStepsKeep
<1>2. CASE Killed
  BY <1>2, RestartKeeps DEF Killed
<1>3. CASE Quit
  BY <1>3, RestartKeeps DEF Quit
<1>4. CASE Open \/ Close \/ ChangePage \/ EditDatabase \/ EditNode \/ ChooseNode
  BY <1>4, OpenKeeps, CloseKeeps, ChangePageKeeps, EditDatabaseKeeps, EditNodeKeeps,
     ChooseNodeKeeps
<1>5. CASE StartApply \/ FinishApply
  BY <1>5, StartApplyKeeps, FinishApplyKeeps
<1>6. ASSUME NEW n \in Nodes,
             Connect(n) \/ OnSubscribed(n) \/ Obey(n) \/ Disconnect(n) \/ EditByHand(n)
      PROVE  IInv'
  BY <1>6, ConnectKeeps, OnSubscribedKeeps, ObeyKeeps, DisconnectKeeps, EditByHandKeeps
<1>7. CASE UNCHANGED vars
  <2>1. TypeOK' /\ ListedInv'
    BY <1>7 DEF vars, file, wire, IInv, TypeOK, ListedInv, Known
  <2>2. FileInv' /\ WireInv'
    BY <1>7, SameFile, SameWire DEF vars, IInv, FileInv, WireInv
  <2> QED
    BY <2>1, <2>2 DEF IInv, FileInv, WireInv
<1> QED
  BY <1>1, <1>2, <1>3, <1>4, <1>5, <1>6, <1>7 DEF Next

-----------------------------------------------------------------------------
\* The invariant of every execution, each write of the settings file, a kill between
\* two of them, and every step of a daemon included.
THEOREM Invariance == Spec => []IInv
<1>1. IInv /\ [Next]_vars => IInv'
  BY Step
<1> QED
  BY <1>1, InitHolds, PTL DEF Spec

\* The types, and the two limits of the database, of which the form never shows both.
THEOREM LimitsSafe == Spec => []Safe
<1>1. IInv => Safe
  BY DEF IInv, Safe, LimitsExclude, GoodForm
<1> QED
  BY <1>1, Invariance, PTL

\* The hidden dialog shows what is stored, through Close, Save, failed writes and kills.
THEOREM HiddenFormStored == Spec => []HiddenFormIsStored
<1>1. IInv => HiddenFormIsStored
  BY DEF IInv
<1> QED
  BY <1>1, Invariance, PTL

\* What the UI keeps for a daemon that had the last word, or took it, is what that
\* daemon runs with or is being sent.
THEOREM ConfigsInStep == Spec => []ConfigInStep
<1>1. IInv => ConfigInStep
  <2> SUFFICES ASSUME IInv, NEW n \in inStep PROVE configs[n] = Coming(n)
    BY DEF ConfigInStep
  <2> QED
    BY DEF IInv, TypeOK, DaemonInv
<1> QED
  BY <1>1, Invariance, PTL

\* Apply changes one daemon's configuration in the fields that were edited only.
THEOREM EditsOnly == Spec => OnlyEditsAreWritten
<1>1. ASSUME IInv, [Next]_vars, stage # "idle", stage' = "idle", ~form.all,
             NEW n \in Nodes, configs'[n] # configs[n]
      PROVE  /\ n = form.choice
             /\ configs[n] = form.base /\ form.base.duration \in Listed =>
                  \A k \in {"duration", "address"} \ form.edited :
                    configs'[n][k] = configs[n][k]
  <2>1. CASE FinishApply
    <3>1. TypeOK /\ GoodForm(form)
      BY <1>1 DEF IInv
    <3>2. n \in Written /\ configs'[n] = Applied(configs[n]) /\ configs[n] \in Config
      BY <1>1, <2>1, <3>1, FinishApplyEffect
    <3>3. n = form.choice
      BY <1>1, <3>2 DEF Written, Targets
    <3>4. ASSUME configs[n] = form.base, form.base.duration \in Listed
          PROVE  /\ "duration" \notin form.edited => configs'[n].duration = configs[n].duration
                 /\ "address" \notin form.edited => configs'[n].address = configs[n].address
      BY <3>1, <3>2, <3>4, AppliedConfig
    <3>5. /\ configs'[n]["duration"] = configs'[n].duration
          /\ configs'[n]["address"] = configs'[n].address
      OBVIOUS
    <3> QED
      BY <3>3, <3>4, <3>5
  <2>2. CASE ~FinishApply
    <3>1. Started
      BY <1>1, <2>2 DEF Next, SetNext, SetNextUnwritten, Killed, Quit, Restart, Open, Close,
         ChangePage, EditDatabase, EditNode, ChooseNode, FormStep, file, StartApply,
         Connect, OnSubscribed, Obey, Disconnect, EditByHand, vars
    <3> QED
      BY <1>1, <3>1 DEF Started
  <2> QED
    BY <2>1, <2>2
<1>2. IInv /\ [Next]_vars =>
        [stage # "idle" /\ stage' = "idle" /\ ~form.all =>
           \A n \in Nodes : configs'[n] # configs[n] =>
             /\ n = form.choice
             /\ configs[n] = form.base /\ form.base.duration \in Listed =>
                  \A k \in {"duration", "address"} \ form.edited :
                    configs'[n][k] = configs[n][k]]_vars
  BY <1>1
<1> QED
  BY <1>2, Invariance, PTL DEF Spec, OnlyEditsAreWritten
=============================================================================

---------------------------- MODULE CommandProofs -----------------------------
(***************************************************************************)
(* Proofs about StudioSync, for any workspaces, files and bounds.          *)
(*                                                                         *)
(* The invariant says of each workspace by itself what its command knows   *)
(* of the project as long as no other command disturbed it, and what its   *)
(* version says about its developer's knowledge (Knowing): that a version  *)
(* that is not behind means one knows the files is not kept by a push      *)
(* alone, but needs that every undisturbed push raises the version.        *)
(***************************************************************************)
EXTENDS StudioSync, Jobs, Debugging, Sequences, TLAPS

\* The developer has pushed or pulled every content of the project.
Known(w) == \A p \in Files : remote[p] # 0 => base[w][p] = remote[p]

\* The cached structure is that of the project.
Fresh(w) ==
    cmd[w].pc \in {"check", "compare", "migrate", "download"} /\ ~cmd[w].overlap =>
        cmd[w].seen = Present(remote) /\ (cmd[w].meta <=> remoteVer # 0)

\* What a push has found out so far.
Compared(w) ==
    /\ cmd[w].pc = "check" => cmd[w].mods = {}
    /\ cmd[w].pc \in {"compare", "migrate"} =>
        /\ cmd[w].mods \subseteq Present(local[w]) \cap cmd[w].seen
        /\ cmd[w].todo \subseteq Present(local[w]) \cap cmd[w].seen
        /\ ~cmd[w].overlap =>
              \A p \in Present(local[w]) \cap cmd[w].seen :
                  p \in cmd[w].todo \cup cmd[w].mods \/ remote[p] = local[w][p]

\* The metadata a push is about to send.
Prepared(w) ==
    cmd[w].pc = "migrate" =>
        /\ cmd[w].todo = {} /\ ver[w] # 0
        /\ ~cmd[w].overlap /\ ~cmd[w].unread => ver[w] > remoteVer

\* What a pull has brought so far.
Fetched(w) ==
    cmd[w].pc = "download" =>
        /\ cmd[w].todo \subseteq cmd[w].seen \cup {Meta}
        /\ ~cmd[w].overlap =>
              /\ \A p \in cmd[w].seen \ cmd[w].todo : local[w][p] = remote[p] /\ base[w][p] = remote[p]
              /\ cmd[w].meta /\ Meta \notin cmd[w].todo => ver[w] = remoteVer

\* The folder that is to be deleted is still empty.
Emptied(w) == cmd[w].pc = "rmdir" /\ ~cmd[w].overlap => Present(remote) \cap InFolder = {}

\* A version that is not behind means one knows the files.
Knowing(w) ==
    ~blind[w] /\ cmd[w].pc # "migrate" =>
        /\ ver[w] <= remoteVer
        /\ ver[w] # 0 /\ ver[w] = remoteVer => Known(w)

\* So does a push that was let through without a question.
Agreed(w) ==
    cmd[w].pc \in {"compare", "migrate"} /\ ~cmd[w].asked /\ ~cmd[w].overlap /\ ~blind[w] => Known(w)

\* A project without metadata has no files.
Untouched == remoteVer = 0 => Present(remote) = {}

WInv(w) ==
    Fresh(w) /\ Compared(w) /\ Prepared(w) /\ Fetched(w) /\ Emptied(w) /\ Knowing(w) /\ Agreed(w)
IInv == TypeOK /\ Untouched /\ \A w \in Workspaces : WInv(w)

-------------------------------------------------------------------------------
LEMMA IdleCommand == Idle \in Commands /\ Idle.pc = "idle"
  BY DEF Idle, Commands

LEMMA OverlapIsCommand ==
    ASSUME NEW c \in Commands
    PROVE  [c EXCEPT !.overlap = TRUE] \in Commands
  BY DEF Commands

LEMMA OverlappedIs ==
    ASSUME TypeOK, NEW w \in Workspaces, NEW c \in Commands, cmd' = Overlapped(w, c)
    PROVE  /\ cmd' \in [Workspaces -> Commands] /\ cmd'[w] = c
           /\ \A x \in Workspaces \ {w} :
                 cmd'[x] = IF cmd[x] = Idle THEN Idle ELSE [cmd[x] EXCEPT !.overlap = TRUE]
<1>1. ASSUME NEW x \in Workspaces
      PROVE  (IF x = w THEN c ELSE IF cmd[x] = Idle THEN Idle ELSE [cmd[x] EXCEPT !.overlap = TRUE])
                \in Commands
  <2>1. cmd[x] \in Commands
    BY DEF TypeOK
  <2> QED BY <2>1, IdleCommand, OverlapIsCommand
<1> QED BY <1>1 DEF Overlapped

LEMMA BecomesIs ==
    ASSUME TypeOK, NEW w \in Workspaces, NEW c \in Commands, Becomes(w, c)
    PROVE  /\ cmd' \in [Workspaces -> Commands] /\ cmd'[w] = c
           /\ \A x \in Workspaces \ {w} : cmd'[x] = cmd[x]
  BY DEF TypeOK, Becomes

\* A step that leaves the project alone concerns its own workspace only.
LEMMA LocalStep ==
    ASSUME IInv, NEW w \in Workspaces, UNCHANGED <<remote, remoteVer>>, TypeOK',
           \A x \in Workspaces \ {w} :
               /\ cmd'[x] = cmd[x] /\ local'[x] = local[x] /\ ver'[x] = ver[x]
               /\ base'[x] = base[x] /\ blind'[x] = blind[x],
           WInv(w)'
    PROVE  IInv'
<1>1. Untouched'
  BY DEF IInv, Untouched, Present
<1>2. ASSUME NEW x \in Workspaces \ {w}
      PROVE  WInv(x)'
  <2>1. WInv(x) /\ cmd'[x] = cmd[x] /\ local'[x] = local[x] /\ ver'[x] = ver[x]
        /\ base'[x] = base[x] /\ blind'[x] = blind[x]
    BY DEF IInv
  <2>2. Known(x)' <=> Known(x)
    BY <2>1 DEF Known
  <2>3. Fresh(x)' /\ Compared(x)' /\ Prepared(x)'
    BY <2>1 DEF WInv, Fresh, Compared, Prepared, Present
  <2>4. Fetched(x)' /\ Emptied(x)' /\ Knowing(x)' /\ Agreed(x)'
    BY <2>1, <2>2 DEF WInv, Fetched, Emptied, Knowing, Agreed, Present
  <2> QED BY <2>3, <2>4 DEF WInv
<1> QED BY <1>1, <1>2 DEF IInv

\* A step on the project: who runs a command is told of it, and the others must not be fooled
\* by their version.
LEMMA Disturbed ==
    ASSUME TypeOK, NEW x \in Workspaces, WInv(x),
           cmd'[x] = IF cmd[x] = Idle THEN Idle ELSE [cmd[x] EXCEPT !.overlap = TRUE],
           local'[x] = local[x], ver'[x] = ver[x], base'[x] = base[x],
           ~blind'[x] /\ cmd[x].pc # "migrate" =>
              ver[x] <= remoteVer' /\ (ver[x] # 0 /\ ver[x] = remoteVer' => Known(x)')
    PROVE  WInv(x)'
<1>1. CASE cmd[x] = Idle
  <2>1. cmd'[x] = Idle /\ cmd'[x].pc = "idle" /\ cmd[x].pc = "idle"
    BY <1>1, IdleCommand
  <2> QED BY <2>1 DEF WInv, Fresh, Compared, Prepared, Fetched, Emptied, Knowing, Agreed
<1>2. CASE cmd[x] # Idle
  <2>1. cmd[x] \in Commands
    BY DEF TypeOK
  <2>2. /\ cmd'[x].overlap = TRUE /\ cmd'[x].pc = cmd[x].pc /\ cmd'[x].mods = cmd[x].mods
        /\ cmd'[x].todo = cmd[x].todo /\ cmd'[x].seen = cmd[x].seen
    BY <1>2, <2>1 DEF Commands
  <2> QED BY <2>2 DEF WInv, Fresh, Compared, Prepared, Fetched, Emptied, Knowing, Agreed, Present
<1> QED BY <1>1, <1>2

LEMMA DeveloperStep ==
    ASSUME IInv, NEW w \in Workspaces, Developer(w)
    PROVE  IInv'
<1>1. /\ cmd[w].pc = "idle" /\ UNCHANGED <<remote, remoteVer, folder, ver, cmd, commands, base, blind>>
      /\ edits' = edits + 1
  BY DEF Developer, Edit, RemoveFolder, At, project, history
<1>2. /\ local' \in [Workspaces -> Trees] /\ dir' \in [Workspaces -> BOOLEAN]
      /\ \A x \in Workspaces \ {w} : local'[x] = local[x]
  <2>1. CASE RemoveFolder(w)
    <3>1. [p \in Files |-> IF p \in InFolder THEN 0 ELSE local[w][p]] \in Trees
      BY DEF IInv, TypeOK, Trees
    <3> QED BY <2>1, <3>1 DEF IInv, TypeOK, RemoveFolder
  <2>2. ASSUME NEW p \in Files, Edit(w, p)
        PROVE  /\ local' \in [Workspaces -> Trees] /\ dir' \in [Workspaces -> BOOLEAN]
               /\ \A x \in Workspaces \ {w} : local'[x] = local[x]
    <3>1. edits + 1 \in Nat /\ 0 \in Nat /\ local[w] \in Trees
      BY DEF IInv, TypeOK
    <3>2. [local[w] EXCEPT ![p] = edits + 1] \in Trees /\ [local[w] EXCEPT ![p] = 0] \in Trees
      BY <3>1 DEF Trees
    <3>3. \/ local' = [local EXCEPT ![w] = [local[w] EXCEPT ![p] = edits + 1]]
          \/ local' = [local EXCEPT ![w] = [local[w] EXCEPT ![p] = 0]]
      BY <2>2 DEF Edit
    <3>4. dir' \in [Workspaces -> BOOLEAN]
      BY <2>2 DEF Edit, IInv, TypeOK
    <3> QED BY <3>2, <3>3, <3>4 DEF IInv, TypeOK
  <2> QED BY <2>1, <2>2 DEF Developer
<1>3. TypeOK'
  BY <1>1, <1>2 DEF IInv, TypeOK
<1>4. Known(w)' <=> Known(w)
  BY <1>1 DEF Known
<1>5. WInv(w)'
  BY <1>1, <1>4 DEF IInv, WInv, Fresh, Compared, Prepared, Fetched, Emptied, Knowing, Agreed
<1> QED BY <1>1, <1>2, <1>3, <1>5, LocalStep

\* The command has ended, the developer's knowledge and the version are as before.
LEMMA EndStep ==
    ASSUME IInv, NEW w \in Workspaces, cmd[w].pc # "migrate", Ends(w),
           UNCHANGED <<project, workspace, bounds, history>>
    PROVE  IInv'
<1> USE DEF project, workspace, bounds, history
<1>1. /\ cmd' \in [Workspaces -> Commands] /\ cmd'[w].pc = "idle"
      /\ \A x \in Workspaces \ {w} : cmd'[x] = cmd[x]
  BY IdleCommand, BecomesIs DEF Ends, IInv
<1>2. TypeOK'
  BY <1>1 DEF IInv, TypeOK
<1>3. Known(w)' <=> Known(w)
  BY DEF Known
<1>4. WInv(w)'
  BY <1>1, <1>3 DEF IInv, WInv, Fresh, Compared, Prepared, Fetched, Emptied, Knowing, Agreed
<1> QED BY <1>1, <1>2, <1>4, LocalStep

\* Setting off on the files, from a structure that is the project's if nobody disturbed.
LEMMA StartedStep ==
    ASSUME IInv, NEW w \in Workspaces, cmd[w].pc \in {"idle", "check"},
           NEW c \in Commands, c.pc = "check", c.mods = {},
           ~c.overlap => c.seen = Present(remote) /\ (c.meta <=> remoteVer # 0),
           ~c.asked /\ ~c.overlap /\ ~blind[w] => Known(w),
           Becomes(w, Started(w, c)), commands' \in Nat,
           UNCHANGED <<project, workspace, edits, history>>
    PROVE  IInv'
<1> USE DEF project, workspace, history
<1> DEFINE d == Started(w, c)
<1>1. Items(w, c) \in SUBSET (Files \cup {Meta})
  BY DEF Items, Present, Commands
<1>2. /\ d \in Commands /\ d.pc = (IF c.kind = "push" THEN "compare" ELSE "download")
      /\ d.todo = Items(w, c) /\ d.mods = {} /\ d.seen = c.seen /\ d.meta = c.meta
      /\ d.asked = c.asked /\ d.overlap = c.overlap
  BY <1>1 DEF Started, Commands
<1> HIDE DEF d
<1>3. /\ cmd' \in [Workspaces -> Commands] /\ cmd'[w] = d
      /\ \A x \in Workspaces \ {w} : cmd'[x] = cmd[x]
  BY <1>2, BecomesIs DEF d, IInv
<1>4. TypeOK'
  BY <1>3 DEF IInv, TypeOK
<1>5. Known(w)' <=> Known(w)
  BY DEF Known
<1>6. Fresh(w)' /\ Emptied(w)' /\ Prepared(w)'
  BY <1>2, <1>3 DEF Fresh, Emptied, Prepared, Present
<1>7. Compared(w)'
  BY <1>2, <1>3 DEF Compared, Items, Present
<1>8. Fetched(w)'
  <2>1. CASE c.kind = "push"
    BY <1>2, <1>3, <2>1 DEF Fetched
  <2>2. CASE c.kind # "push"
    <3>1. d.todo = c.seen \cup {m \in {Meta} : c.meta}
      BY <1>2, <2>2 DEF Items
    <3>2. c.seen \ d.todo = {} /\ d.todo \subseteq c.seen \cup {Meta} /\ (c.meta => Meta \in d.todo)
      BY <3>1
    <3> QED BY <1>2, <1>3, <3>2 DEF Fetched
  <2> QED BY <2>1, <2>2
<1>9. Knowing(w)' /\ Agreed(w)'
  <2>1. cmd[w].pc # "migrate" /\ Knowing(w)
    BY DEF IInv, WInv
  <2> QED BY <1>2, <1>3, <1>5, <2>1 DEF Knowing, Agreed
<1>10. WInv(w)'
  BY <1>6, <1>7, <1>8, <1>9 DEF WInv
<1> QED BY <1>3, <1>4, <1>10, LocalStep

\* A command that only changed its own record, and not while a version is about to be sent.
LEMMA RecordStep ==
    ASSUME IInv, NEW w \in Workspaces, NEW c \in Commands, Becomes(w, c),
           commands' \in Nat, UNCHANGED <<project, workspace, edits, history>>,
           (Known(w)' <=> Known(w)) => WInv(w)'
    PROVE  IInv'
<1> USE DEF project, workspace, history
<1>1. /\ cmd' \in [Workspaces -> Commands] /\ cmd'[w] = c
      /\ \A x \in Workspaces \ {w} : cmd'[x] = cmd[x]
  BY BecomesIs DEF IInv
<1>2. TypeOK'
  BY <1>1 DEF IInv, TypeOK
<1>3. Known(w)' <=> Known(w)
  BY DEF Known
<1> QED BY <1>1, <1>2, <1>3, LocalStep

LEMMA BeginStep ==
    ASSUME IInv, NEW w \in Workspaces, Starts(w)
    PROVE  IInv'
<1>1. PICK kind \in {"push", "pull"}, overwrite \in BOOLEAN : Begin(w, kind, overwrite)
  BY DEF Starts
<1> DEFINE c == [Idle EXCEPT !.pc = "check", !.kind = kind, !.asked = overwrite,
                             !.seen = Present(remote), !.meta = (remoteVer # 0)]
<1>2. /\ cmd[w].pc = "idle" /\ commands' = commands + 1 /\ commands' \in Nat
      /\ Becomes(w, IF overwrite THEN Started(w, c) ELSE c)
      /\ UNCHANGED <<project, workspace, edits, history>>
  BY <1>1 DEF Begin, At, IInv, TypeOK
<1>3. /\ c \in Commands /\ c.pc = "check" /\ c.mods = {} /\ ~c.overlap
      /\ c.seen = Present(remote) /\ (c.meta <=> remoteVer # 0) /\ c.asked = overwrite
  BY DEF Idle, Commands, Present
<1> HIDE DEF c
<1>4. CASE overwrite
  <2>1. Becomes(w, Started(w, c))
    BY <1>2, <1>4
  <2> QED BY <1>2, <1>3, <1>4, <2>1, StartedStep
<1>5. CASE ~overwrite
  <2>1. Becomes(w, c)
    BY <1>2, <1>5
  <2>2. cmd'[w] = c
    BY <1>3, <2>1, BecomesIs DEF IInv
  <2>3. (Known(w)' <=> Known(w)) => WInv(w)'
    <3>1. Fresh(w)' /\ Compared(w)' /\ Prepared(w)' /\ Fetched(w)' /\ Emptied(w)' /\ Agreed(w)'
      BY <1>2, <1>3, <2>2 DEF Fresh, Compared, Prepared, Fetched, Emptied, Agreed, project, workspace, Present
    <3>2. (Known(w)' <=> Known(w)) => Knowing(w)'
      BY <1>2, <1>3, <2>2 DEF IInv, WInv, Knowing, project, workspace, history
    <3> QED BY <3>1, <3>2 DEF WInv
  <2> QED BY <1>2, <1>3, <2>1, <2>3, RecordStep
<1> QED BY <1>4, <1>5

\* Let through, one knows the files, or has agreed.
LEMMA MayOverrideStep ==
    ASSUME IInv, NEW w \in Workspaces, MayOverride(w)
    PROVE  IInv'
<1>1. /\ cmd[w].pc = "check" /\ UNCHANGED <<project, workspace, bounds, edits, commands, history>>
      /\ commands' \in Nat
  BY DEF MayOverride, At, bounds, IInv, TypeOK
<1>2. /\ cmd[w] \in Commands /\ cmd[w].mods = {}
      /\ ~cmd[w].overlap => cmd[w].seen = Present(remote) /\ (cmd[w].meta <=> remoteVer # 0)
  BY <1>1 DEF IInv, TypeOK, WInv, Fresh, Compared
<1>3. CASE NeedNotAsk(w) /\ Becomes(w, Started(w, cmd[w]))
  <2>1. ASSUME ~cmd[w].overlap, ~blind[w]
        PROVE  Known(w)
    <3>1. CASE ~cmd[w].meta
      <4>1. \A p \in Files : ~(remote[p] # 0)
        BY <1>2, <2>1, <3>1 DEF IInv, Untouched, Present
      <4> QED BY <4>1 DEF Known
    <3>2. CASE ver[w] # 0 /\ ver[w] >= remoteVer
      <4>1. ver[w] \in Nat /\ remoteVer \in Nat /\ ver[w] <= remoteVer
        BY <1>1, <2>1 DEF IInv, TypeOK, WInv, Knowing
      <4>2. ver[w] = remoteVer
        BY <3>2, <4>1
      <4> QED BY <1>1, <2>1, <3>2, <4>2 DEF IInv, WInv, Knowing
    <3> QED BY <1>3, <3>1, <3>2 DEF NeedNotAsk, UpToDate
  <2> QED BY <1>1, <1>2, <1>3, <2>1, StartedStep
<1>4. CASE Becomes(w, Started(w, [cmd[w] EXCEPT !.asked = TRUE]))
  <2> DEFINE c == [cmd[w] EXCEPT !.asked = TRUE]
  <2>1. /\ c \in Commands /\ c.pc = "check" /\ c.mods = {} /\ c.asked = TRUE
        /\ c.overlap = cmd[w].overlap /\ c.seen = cmd[w].seen /\ c.meta = cmd[w].meta
    BY <1>1, <1>2 DEF Commands
  <2> HIDE DEF c
  <2>2. Becomes(w, Started(w, c))
    BY <1>4 DEF c
  <2> QED BY <1>1, <1>2, <2>1, <2>2, StartedStep
<1>5. CASE Ends(w)
  BY <1>1, <1>5, EndStep
<1> QED BY <1>3, <1>4, <1>5 DEF MayOverride

LEMMA CompareStep ==
    ASSUME IInv, NEW w \in Workspaces, NEW p \in Files, Compare(w, p)
    PROVE  IInv'
<1>1. /\ cmd[w].pc = "compare" /\ p \in cmd[w].todo /\ commands' \in Nat
      /\ UNCHANGED <<project, workspace, edits, history>>
  BY DEF Compare, At, bounds, IInv, TypeOK
<1>2. PICK modified \in Differs(w, p) :
         Becomes(w, [cmd[w] EXCEPT !.todo = @ \ {p},
                                   !.mods = IF modified THEN @ \cup {p} ELSE @])
  BY DEF Compare
<1> DEFINE c == [cmd[w] EXCEPT !.todo = @ \ {p}, !.mods = IF modified THEN @ \cup {p} ELSE @]
<1>3. cmd[w] \in Commands
  BY DEF IInv, TypeOK
<1>4. /\ c \in Commands /\ c.pc = "compare" /\ c.todo = cmd[w].todo \ {p} /\ c.seen = cmd[w].seen
      /\ c.mods = IF modified THEN cmd[w].mods \cup {p} ELSE cmd[w].mods
      /\ c.overlap = cmd[w].overlap /\ c.asked = cmd[w].asked /\ c.meta = cmd[w].meta
  BY <1>1, <1>3 DEF Commands
<1>5. Becomes(w, c)
  BY <1>2
<1> HIDE DEF c
<1>6. cmd'[w] = c
  BY <1>4, <1>5, BecomesIs DEF IInv
<1>7. ~modified => remote[p] = local[w][p]
  BY <1>2 DEF Differs
<1>8. Compared(w)'
  BY <1>1, <1>4, <1>6, <1>7 DEF IInv, WInv, Compared, Present, project, workspace
<1>9. Fresh(w)' /\ Prepared(w)' /\ Fetched(w)' /\ Emptied(w)'
  BY <1>1, <1>4, <1>6 DEF IInv, WInv, Fresh, Prepared, Fetched, Emptied, Present, project, workspace
<1>10. (Known(w)' <=> Known(w)) => Knowing(w)' /\ Agreed(w)'
  BY <1>1, <1>4, <1>6 DEF IInv, WInv, Knowing, Agreed, project, workspace, history
<1>11. (Known(w)' <=> Known(w)) => WInv(w)'
  BY <1>8, <1>9, <1>10 DEF WInv
<1> QED BY <1>1, <1>4, <1>5, <1>11, RecordStep

LEMMA PrepareMetadataStep ==
    ASSUME IInv, NEW w \in Workspaces, PrepareMetadata(w)
    PROVE  IInv'
<1>1. /\ cmd[w].pc = "compare" /\ cmd[w].todo = {} /\ cmd[w] \in Commands
      /\ remoteVer \in Nat /\ ver \in [Workspaces -> Nat]
      /\ UNCHANGED <<remote, remoteVer, folder, local, dir, edits, commands, base, blind>>
  BY DEF PrepareMetadata, At, IInv, TypeOK, project, bounds, history
<1>2. PICK v \in Nat, unread \in BOOLEAN :
         /\ v # 0 /\ ver' = [ver EXCEPT ![w] = v]
         /\ ~unread => v = remoteVer + 1 \/ ~cmd[w].meta
         /\ Becomes(w, [cmd[w] EXCEPT !.pc = "migrate", !.unread = IF unread THEN TRUE ELSE @])
  <2> DEFINE own == IF ver[w] = 0 THEN Initial ELSE ver[w]
  <2>1. own \in Nat /\ own # 0 /\ remoteVer + 1 \in Nat /\ remoteVer + 1 # 0
    BY <1>1 DEF Initial
  <2> HIDE DEF own
  <2>2. CASE /\ ver' = [ver EXCEPT ![w] = IF cmd[w].meta THEN NextVersion(w) ELSE own]
             /\ Becomes(w, [cmd[w] EXCEPT !.pc = "migrate"])
    <3>1. [cmd[w] EXCEPT !.pc = "migrate"] =
            [cmd[w] EXCEPT !.pc = "migrate", !.unread = IF FALSE THEN TRUE ELSE @]
      BY <1>1 DEF Commands
    <3> QED BY <2>1, <2>2, <3>1 DEF NextVersion
  <2>3. CASE /\ ver' = [ver EXCEPT ![w] = own]
             /\ Becomes(w, [cmd[w] EXCEPT !.pc = "migrate", !.unread = TRUE])
    BY <2>1, <2>3
  <2> QED BY <2>2, <2>3 DEF PrepareMetadata, own
<1> DEFINE c == [cmd[w] EXCEPT !.pc = "migrate", !.unread = IF unread THEN TRUE ELSE @]
<1>3. /\ c \in Commands /\ c.pc = "migrate" /\ c.todo = {} /\ c.seen = cmd[w].seen /\ c.mods = cmd[w].mods
      /\ c.overlap = cmd[w].overlap /\ c.asked = cmd[w].asked /\ c.meta = cmd[w].meta
      /\ ~c.unread => ~unread
  BY <1>1 DEF Commands
<1>4. Becomes(w, c)
  BY <1>2
<1> HIDE DEF c
<1>5. /\ cmd' \in [Workspaces -> Commands] /\ cmd'[w] = c
      /\ \A x \in Workspaces \ {w} : cmd'[x] = cmd[x]
  BY <1>3, <1>4, BecomesIs DEF IInv
<1>6. ver' \in [Workspaces -> Nat] /\ ver'[w] = v /\ \A x \in Workspaces \ {w} : ver'[x] = ver[x]
  BY <1>1, <1>2
<1>7. TypeOK'
  BY <1>1, <1>5, <1>6 DEF IInv, TypeOK
<1>8. Known(w)' <=> Known(w)
  BY <1>1 DEF Known
<1>9. Fresh(w)' /\ Compared(w)' /\ Fetched(w)' /\ Emptied(w)'
  BY <1>1, <1>3, <1>5 DEF IInv, WInv, Fresh, Compared, Fetched, Emptied, Present
<1>10. Prepared(w)'
  <2>1. ~cmd[w].overlap => (cmd[w].meta <=> remoteVer # 0)
    BY <1>1 DEF IInv, WInv, Fresh
  <2>2. ~c.overlap /\ ~c.unread => v > remoteVer
    BY <1>1, <1>2, <1>3, <2>1
  <2> QED BY <1>1, <1>2, <1>3, <1>5, <1>6, <2>2 DEF Prepared
<1>11. Knowing(w)' /\ Agreed(w)'
  BY <1>1, <1>3, <1>5, <1>8 DEF IInv, WInv, Knowing, Agreed
<1>12. WInv(w)'
  BY <1>9, <1>10, <1>11 DEF WInv
<1> QED BY <1>1, <1>5, <1>6, <1>7, <1>12, LocalStep

\* What a push sends when nobody disturbed it: the workspace's files, but for the ignored ones.
LEMMA MigratedIs ==
    ASSUME IInv, NEW w \in Workspaces, cmd[w].pc = "migrate"
    PROVE  /\ Migrated(w) \in Trees
           /\ ~cmd[w].overlap =>
                 \A p \in Files : dir[w] \/ p \notin Prefixed => Migrated(w)[p] = local[w][p]
<1>1. /\ local[w] \in Trees /\ remote \in Trees /\ cmd[w] \in Commands
      /\ cmd[w].mods \subseteq Present(local[w]) \cap cmd[w].seen /\ cmd[w].todo = {}
  BY DEF IInv, TypeOK, WInv, Compared, Prepared
<1>2. Migrated(w) \in Trees
  BY <1>1 DEF Migrated, Trees
<1>3. ASSUME ~cmd[w].overlap, NEW p \in Files, dir[w] \/ p \notin Prefixed
      PROVE  Migrated(w)[p] = local[w][p]
  <2>1. cmd[w].seen = Present(remote)
    BY <1>3 DEF IInv, WInv, Fresh
  <2>2. p \in Present(local[w]) \cap cmd[w].seen => p \in cmd[w].mods \/ remote[p] = local[w][p]
    BY <1>1, <1>3 DEF IInv, WInv, Compared
  <2>3. CASE p \notin cmd[w].seen
    <3>1. remote[p] = 0
      BY <2>1, <2>3 DEF Present
    <3>2. p \in Adds(w) <=> local[w][p] # 0
      BY <2>3 DEF Adds, Present
    <3>3. p \notin cmd[w].mods /\ p \notin Deletes(w)
      BY <1>1, <2>3 DEF Deletes
    <3> QED BY <3>1, <3>2, <3>3 DEF Migrated
  <2>4. CASE p \in cmd[w].seen /\ local[w][p] # 0
    <3>1. remote[p] # 0 /\ p \notin Adds(w) /\ p \notin Deletes(w)
      BY <2>1, <2>4 DEF Adds, Deletes, Present
    <3>2. p \in cmd[w].mods \/ remote[p] = local[w][p]
      BY <2>2, <2>4 DEF Present
    <3> QED BY <3>1, <3>2 DEF Migrated
  <2>5. CASE p \in cmd[w].seen /\ local[w][p] = 0
    <3>1. p \notin Adds(w) /\ p \notin cmd[w].mods
      BY <1>1, <2>5 DEF Adds, Present
    <3>2. p \in Deletes(w)
      BY <1>3, <2>5 DEF Deletes, Ignored, Present
    <3> QED BY <2>5, <3>1, <3>2 DEF Migrated
  <2> QED BY <2>3, <2>4, <2>5
<1> QED BY <1>2, <1>3

\* The others see a higher version, or are blind to what happened.
LEMMA MigrateStep ==
    ASSUME IInv, NEW w \in Workspaces, Migrate(w)
    PROVE  IInv'
<1>1. /\ cmd[w].pc = "migrate" /\ remote' = Migrated(w) /\ remoteVer' = ver[w]
      /\ folder' = (folder \/ Adds(w) \cap InFolder # {})
      /\ base' = [base EXCEPT ![w] =
                     [p \in Files |-> IF remote'[p] = local[w][p] THEN remote'[p] ELSE base[w][p]]]
      /\ blind' = [x \in Workspaces |->
                      IF x = w THEN \E p \in Files : remote'[p] # local[w][p]
                      ELSE blind[x] \/ cmd[w].overlap \/ cmd[w].unread]
      /\ UNCHANGED <<local, dir, ver, edits, commands>>
  BY DEF Migrate, At, workspace, bounds
<1>2. PICK next \in {Idle, [cmd[w] EXCEPT !.pc = "clean"]} : cmd' = Overlapped(w, next)
  BY DEF Migrate
<1>3. cmd[w] \in Commands
  BY DEF IInv, TypeOK
<1>4. next \in Commands /\ next.pc \in {"idle", "clean"}
  BY <1>3, IdleCommand DEF Commands
<1>5. /\ cmd' \in [Workspaces -> Commands] /\ cmd'[w] = next
      /\ \A x \in Workspaces \ {w} :
            cmd'[x] = IF cmd[x] = Idle THEN Idle ELSE [cmd[x] EXCEPT !.overlap = TRUE]
  BY <1>2, <1>4, OverlappedIs DEF IInv
<1>7. /\ remote' \in Trees /\ remoteVer' \in Nat /\ ver[w] # 0
      /\ base[w] \in Trees /\ local[w] \in Trees
  BY <1>1, MigratedIs DEF IInv, TypeOK, WInv, Prepared
<1>8. /\ base' \in [Workspaces -> Trees]
      /\ base'[w] = [p \in Files |-> IF remote'[p] = local[w][p] THEN remote'[p] ELSE base[w][p]]
      /\ \A x \in Workspaces \ {w} : base'[x] = base[x]
  <2>1. [p \in Files |-> IF remote'[p] = local[w][p] THEN remote'[p] ELSE base[w][p]] \in Trees
    BY <1>7 DEF Trees
  <2>2. base \in [Workspaces -> Trees]
    BY DEF IInv, TypeOK
  <2> QED BY <1>1, <2>1, <2>2
<1>9. blind' \in [Workspaces -> BOOLEAN] /\ folder' \in BOOLEAN
  <2>1. blind \in [Workspaces -> BOOLEAN] /\ folder \in BOOLEAN
    BY DEF IInv, TypeOK
  <2> QED BY <1>1, <2>1
<1>10. TypeOK'
  BY <1>1, <1>5, <1>7, <1>8, <1>9 DEF IInv, TypeOK
<1>11. Untouched'
  BY <1>1, <1>7 DEF Untouched
<1>12. WInv(w)'
  <2>1. ASSUME ~blind'[w]
        PROVE  Known(w)'
    <3>1. \A p \in Files : remote'[p] = local[w][p]
      BY <1>1, <2>1
    <3>2. \A p \in Files : base'[w][p] = remote'[p]
      BY <1>8, <3>1
    <3> QED BY <3>2 DEF Known
  <2>2. ver'[w] = remoteVer' /\ ver'[w] <= remoteVer'
    BY <1>1, <1>7
  <2>3. Knowing(w)'
    BY <2>1, <2>2 DEF Knowing
  <2> QED BY <1>4, <1>5, <2>3 DEF WInv, Fresh, Compared, Prepared, Fetched, Emptied, Agreed
<1>13. ASSUME NEW x \in Workspaces \ {w}
       PROVE  WInv(x)'
  <2>1. ASSUME ~blind'[x], cmd[x].pc # "migrate"
        PROVE  ver[x] <= remoteVer' /\ ver[x] # remoteVer'
    <3>1. ~blind[x] /\ ~cmd[w].overlap /\ ~cmd[w].unread
      BY <1>1, <2>1
    <3>2. ver[w] > remoteVer
      BY <1>1, <3>1 DEF IInv, WInv, Prepared
    <3>3. ver[x] <= remoteVer
      BY <2>1, <3>1 DEF IInv, WInv, Knowing
    <3> QED BY <1>1, <3>2, <3>3 DEF IInv, TypeOK
  <2> QED BY <1>1, <1>5, <1>8, <2>1, Disturbed DEF IInv
<1> QED BY <1>10, <1>11, <1>12, <1>13 DEF IInv

LEMMA MigrateFailsStep ==
    ASSUME IInv, NEW w \in Workspaces, MigrateFails(w)
    PROVE  IInv'
<1>1. /\ Becomes(w, Idle) /\ blind' = [blind EXCEPT ![w] = TRUE]
      /\ UNCHANGED <<remote, remoteVer, folder, local, dir, ver, edits, commands, base>>
  BY DEF MigrateFails, AfterLocked, project, workspace, bounds
<1>2. /\ cmd' \in [Workspaces -> Commands] /\ cmd'[w].pc = "idle"
      /\ \A x \in Workspaces \ {w} : cmd'[x] = cmd[x]
  BY <1>1, IdleCommand, BecomesIs DEF IInv
<1>3. blind' \in [Workspaces -> BOOLEAN] /\ blind'[w] /\ \A x \in Workspaces \ {w} : blind'[x] = blind[x]
  BY <1>1 DEF IInv, TypeOK
<1>4. TypeOK'
  BY <1>1, <1>2, <1>3 DEF IInv, TypeOK
<1>5. WInv(w)'
  BY <1>2, <1>3 DEF WInv, Fresh, Compared, Prepared, Fetched, Emptied, Knowing, Agreed
<1> QED BY <1>1, <1>2, <1>3, <1>4, <1>5, LocalStep

LEMMA FindEmptyFoldersStep ==
    ASSUME IInv, NEW w \in Workspaces, FindEmptyFolders(w)
    PROVE  IInv'
<1>1. /\ cmd[w].pc = "clean" /\ UNCHANGED <<project, workspace, bounds, edits, commands, history>>
      /\ cmd[w] \in Commands /\ commands' \in Nat
  BY DEF FindEmptyFolders, At, bounds, IInv, TypeOK
<1>2. CASE FolderEmpty(w) /\ Becomes(w, [cmd[w] EXCEPT !.pc = "rmdir", !.overlap = FALSE])
  <2> DEFINE c == [cmd[w] EXCEPT !.pc = "rmdir", !.overlap = FALSE]
  <2>1. c \in Commands /\ c.pc = "rmdir"
    BY <1>1 DEF Commands
  <2>2. Becomes(w, c)
    BY <1>2
  <2> HIDE DEF c
  <2>3. cmd'[w].pc = "rmdir"
    BY <2>1, <2>2, BecomesIs DEF IInv
  <2>4. Emptied(w)'
    BY <1>1, <1>2 DEF Emptied, FolderEmpty, Present, project
  <2>5. (Known(w)' <=> Known(w)) => Knowing(w)'
    BY <1>1, <2>3 DEF IInv, WInv, Knowing, project, workspace, history
  <2>6. (Known(w)' <=> Known(w)) => WInv(w)'
    BY <2>3, <2>4, <2>5 DEF WInv, Fresh, Compared, Prepared, Fetched, Agreed
  <2> QED BY <1>1, <2>1, <2>2, <2>6, RecordStep
<1>3. CASE Ends(w)
  BY <1>1, <1>3, EndStep
<1> QED BY <1>2, <1>3 DEF FindEmptyFolders

LEMMA DeleteFolderStep ==
    ASSUME IInv, NEW w \in Workspaces, DeleteFolder(w)
    PROVE  IInv'
<1>1. /\ cmd[w].pc = "rmdir" /\ folder' = FALSE
      /\ remote' = [p \in Files |-> IF p \in InFolder THEN 0 ELSE remote[p]]
      /\ cmd' = Overlapped(w, Idle)
      /\ UNCHANGED <<remoteVer, local, dir, ver, edits, commands, base, blind>>
  BY DEF DeleteFolder, At, workspace, bounds, history
<1>2. remote \in Trees
  BY DEF IInv, TypeOK
<1>3. /\ cmd' \in [Workspaces -> Commands] /\ cmd'[w] = Idle
      /\ \A x \in Workspaces \ {w} :
            cmd'[x] = IF cmd[x] = Idle THEN Idle ELSE [cmd[x] EXCEPT !.overlap = TRUE]
  BY <1>1, IdleCommand, OverlappedIs DEF IInv
<1>5. remote' \in Trees /\ \A p \in Files : remote'[p] # 0 => remote'[p] = remote[p]
  BY <1>1, <1>2 DEF Trees
<1>6. TypeOK'
  BY <1>1, <1>3, <1>5 DEF IInv, TypeOK
<1>7. Untouched'
  BY <1>1, <1>5 DEF IInv, Untouched, Present
<1>8. \A x \in Workspaces : Known(x) => Known(x)'
  BY <1>1, <1>5 DEF Known
<1>9. WInv(w)'
  <2>1. Knowing(w)'
    BY <1>1, <1>8 DEF IInv, WInv, Knowing
  <2> QED BY <1>3, <2>1, IdleCommand DEF WInv, Fresh, Compared, Prepared, Fetched, Emptied, Agreed
<1>10. ASSUME NEW x \in Workspaces \ {w}
       PROVE  WInv(x)'
  <2>1. ~blind'[x] /\ cmd[x].pc # "migrate" =>
            ver[x] <= remoteVer' /\ (ver[x] # 0 /\ ver[x] = remoteVer' => Known(x)')
    BY <1>1, <1>8 DEF IInv, WInv, Knowing
  <2> QED BY <1>1, <1>3, <2>1, Disturbed DEF IInv
<1> QED BY <1>6, <1>7, <1>9, <1>10 DEF IInv

LEMMA DownloadFileStep ==
    ASSUME IInv, NEW w \in Workspaces, NEW p \in Files, DownloadFile(w, p)
    PROVE  IInv'
<1>1. /\ cmd[w].pc = "download" /\ p \in cmd[w].todo /\ cmd[w] \in Commands
      /\ local' = [local EXCEPT ![w][p] = remote[p]] /\ base' = [base EXCEPT ![w][p] = remote[p]]
      /\ dir' = [dir EXCEPT ![w] = @ \/ p \in InFolder]
      /\ UNCHANGED <<remote, remoteVer, folder, ver, edits, commands, blind>>
  BY DEF DownloadFile, Downloaded, At, project, bounds, IInv, TypeOK
<1> DEFINE c == [cmd[w] EXCEPT !.todo = @ \ {p}]
<1>2. /\ c \in Commands /\ c.pc = "download" /\ c.todo = cmd[w].todo \ {p} /\ c.seen = cmd[w].seen
      /\ c.overlap = cmd[w].overlap /\ c.meta = cmd[w].meta
  BY <1>1 DEF Commands
<1>3. Becomes(w, c)
  BY DEF DownloadFile
<1> HIDE DEF c
<1>4. /\ cmd' \in [Workspaces -> Commands] /\ cmd'[w] = c
      /\ \A x \in Workspaces \ {w} : cmd'[x] = cmd[x]
  BY <1>2, <1>3, BecomesIs DEF IInv
<1>5. /\ local' \in [Workspaces -> Trees] /\ base' \in [Workspaces -> Trees]
      /\ local'[w] = [local[w] EXCEPT ![p] = remote[p]] /\ base'[w] = [base[w] EXCEPT ![p] = remote[p]]
      /\ \A x \in Workspaces \ {w} : local'[x] = local[x] /\ base'[x] = base[x]
  <2>1. /\ local \in [Workspaces -> Trees] /\ base \in [Workspaces -> Trees]
        /\ local[w] \in Trees /\ base[w] \in Trees /\ remote[p] \in Nat
    BY DEF IInv, TypeOK, Trees
  <2>2. [local[w] EXCEPT ![p] = remote[p]] \in Trees /\ [base[w] EXCEPT ![p] = remote[p]] \in Trees
    BY <2>1 DEF Trees
  <2>3. /\ local' = [local EXCEPT ![w] = [local[w] EXCEPT ![p] = remote[p]]]
        /\ base' = [base EXCEPT ![w] = [base[w] EXCEPT ![p] = remote[p]]]
    BY <1>1
  <2> QED BY <2>1, <2>2, <2>3
<1>6. dir' \in [Workspaces -> BOOLEAN]
  BY <1>1 DEF IInv, TypeOK
<1>7. TypeOK'
  BY <1>1, <1>4, <1>5, <1>6 DEF IInv, TypeOK
<1>8. /\ local'[w][p] = remote[p] /\ base'[w][p] = remote[p]
      /\ \A q \in Files \ {p} : local'[w][q] = local[w][q] /\ base'[w][q] = base[w][q]
  BY <1>5 DEF IInv, TypeOK, Trees
<1>9. Known(w) => Known(w)'
  BY <1>1, <1>8 DEF Known
<1>10. Fetched(w)'
  <2>1. /\ cmd[w].todo \subseteq cmd[w].seen \cup {Meta} /\ p # Meta /\ cmd[w].seen \subseteq Files
        /\ ~cmd[w].overlap =>
              /\ \A q \in cmd[w].seen \ cmd[w].todo : local[w][q] = remote[q] /\ base[w][q] = remote[q]
              /\ cmd[w].meta /\ Meta \notin cmd[w].todo => ver[w] = remoteVer
    BY <1>1, SyncAssumption DEF IInv, WInv, Fetched, Commands
  <2>2. c.todo \subseteq c.seen \cup {Meta}
    BY <1>2, <2>1
  <2>3. ASSUME ~c.overlap, NEW q \in c.seen \ c.todo
        PROVE  local'[w][q] = remote[q] /\ base'[w][q] = remote[q]
    BY <1>2, <1>8, <2>1, <2>3
  <2>4. ~c.overlap => (c.meta /\ Meta \notin c.todo => ver[w] = remoteVer)
    BY <1>2, <2>1
  <2> QED BY <1>1, <1>4, <2>2, <2>3, <2>4 DEF Fetched
<1>11. Fresh(w)' /\ Compared(w)' /\ Prepared(w)' /\ Emptied(w)' /\ Agreed(w)'
  BY <1>1, <1>2, <1>4 DEF IInv, WInv, Fresh, Compared, Prepared, Emptied, Agreed, Present
<1>12. Knowing(w)'
  BY <1>1, <1>2, <1>4, <1>9 DEF IInv, WInv, Knowing
<1>13. WInv(w)'
  BY <1>10, <1>11, <1>12 DEF WInv
<1> QED BY <1>1, <1>4, <1>5, <1>7, <1>13, LocalStep

LEMMA DownloadMetadataStep ==
    ASSUME IInv, NEW w \in Workspaces, DownloadMetadata(w)
    PROVE  IInv'
<1>1. /\ cmd[w].pc = "download" /\ cmd[w] \in Commands
      /\ ver' = [ver EXCEPT ![w] = remoteVer] /\ blind' = [blind EXCEPT ![w] = TRUE]
      /\ UNCHANGED <<remote, remoteVer, folder, local, dir, edits, commands, base>>
  BY DEF DownloadMetadata, At, project, bounds, IInv, TypeOK
<1> DEFINE c == [cmd[w] EXCEPT !.todo = @ \ {Meta}]
<1>2. /\ c \in Commands /\ c.pc = "download" /\ c.todo = cmd[w].todo \ {Meta} /\ c.seen = cmd[w].seen
      /\ c.overlap = cmd[w].overlap /\ c.meta = cmd[w].meta
  BY <1>1 DEF Commands
<1>3. Becomes(w, c)
  BY DEF DownloadMetadata
<1> HIDE DEF c
<1>4. /\ cmd' \in [Workspaces -> Commands] /\ cmd'[w] = c
      /\ \A x \in Workspaces \ {w} : cmd'[x] = cmd[x]
  BY <1>2, <1>3, BecomesIs DEF IInv
<1>5. /\ ver' \in [Workspaces -> Nat] /\ ver'[w] = remoteVer
      /\ blind' \in [Workspaces -> BOOLEAN] /\ blind'[w]
      /\ \A x \in Workspaces \ {w} : ver'[x] = ver[x] /\ blind'[x] = blind[x]
  BY <1>1 DEF IInv, TypeOK
<1>6. TypeOK'
  BY <1>1, <1>4, <1>5 DEF IInv, TypeOK
<1>7. Fetched(w)'
  <2>1. /\ cmd[w].todo \subseteq cmd[w].seen \cup {Meta} /\ Meta \notin cmd[w].seen
        /\ ~cmd[w].overlap =>
              \A q \in cmd[w].seen \ cmd[w].todo : local[w][q] = remote[q] /\ base[w][q] = remote[q]
    BY <1>1, SyncAssumption DEF IInv, WInv, Fetched, Commands
  <2> QED BY <1>1, <1>2, <1>4, <1>5, <2>1 DEF Fetched
<1>8. Fresh(w)' /\ Compared(w)' /\ Prepared(w)' /\ Emptied(w)' /\ Agreed(w)' /\ Knowing(w)'
  BY <1>1, <1>2, <1>4, <1>5 DEF IInv, WInv, Fresh, Compared, Prepared, Emptied, Agreed, Knowing, Present
<1>9. WInv(w)'
  BY <1>7, <1>8 DEF WInv
<1> QED BY <1>1, <1>4, <1>5, <1>6, <1>9, LocalStep

\* An undisturbed pull that got to its end knows the project.
LEMMA PulledIs ==
    ASSUME IInv, NEW w \in Workspaces, cmd[w].pc = "download", cmd[w].todo = {}, ~cmd[w].overlap
    PROVE  /\ \A p \in Present(remote) : local[w][p] = remote[p] /\ base[w][p] = remote[p]
           /\ (cmd[w].meta <=> remoteVer # 0) /\ (cmd[w].meta => ver[w] = remoteVer)
  BY DEF IInv, WInv, Fresh, Fetched

LEMMA PullEndsStep ==
    ASSUME IInv, NEW w \in Workspaces, PullEnds(w)
    PROVE  IInv'
<1>1. /\ cmd[w].pc = "download" /\ cmd[w].todo = {} /\ Becomes(w, Idle)
      /\ blind' = [blind EXCEPT ![w] = @ /\ (cmd[w].overlap \/ ~cmd[w].meta)]
      /\ UNCHANGED <<remote, remoteVer, folder, local, dir, ver, edits, commands, base>>
  BY DEF PullEnds, Ends, At, project, workspace, bounds
<1>2. /\ cmd' \in [Workspaces -> Commands] /\ cmd'[w].pc = "idle"
      /\ \A x \in Workspaces \ {w} : cmd'[x] = cmd[x]
  BY <1>1, IdleCommand, BecomesIs DEF IInv
<1>3. /\ blind' \in [Workspaces -> BOOLEAN] /\ \A x \in Workspaces \ {w} : blind'[x] = blind[x]
      /\ ~blind'[w] => ~blind[w] \/ (~cmd[w].overlap /\ cmd[w].meta)
  <2>1. blind \in [Workspaces -> BOOLEAN]
    BY DEF IInv, TypeOK
  <2>2. cmd[w] \in Commands
    BY DEF IInv, TypeOK
  <2>3. cmd[w].overlap \in BOOLEAN /\ cmd[w].meta \in BOOLEAN
    BY <2>2 DEF Commands
  <2> QED BY <1>1, <2>1, <2>3
<1>4. TypeOK'
  BY <1>1, <1>2, <1>3 DEF IInv, TypeOK
<1>5. Known(w)' <=> Known(w)
  BY <1>1 DEF Known
<1>6. Knowing(w)'
  <2>1. CASE ~cmd[w].overlap /\ cmd[w].meta
    <3>1. Known(w) /\ ver[w] = remoteVer
      BY <1>1, <2>1, PulledIs DEF Known, Present
    <3>2. ver[w] <= remoteVer
      BY <3>1 DEF IInv, TypeOK
    <3> QED BY <1>1, <1>5, <3>1, <3>2 DEF Knowing
  <2>2. CASE ~blind[w]
    BY <1>1, <1>5, <2>2 DEF IInv, WInv, Knowing
  <2> QED BY <1>3, <2>1, <2>2 DEF Knowing
<1>7. WInv(w)'
  BY <1>2, <1>6 DEF WInv, Fresh, Compared, Prepared, Fetched, Emptied, Agreed
<1> QED BY <1>1, <1>2, <1>3, <1>4, <1>7, LocalStep

LEMMA InitInv == Init => IInv
<1> SUFFICES ASSUME Init PROVE IInv
  OBVIOUS
<1>1. [p \in Files |-> 0] \in Trees
  BY DEF Trees
<1>2. TypeOK
  <2>1. remote \in Trees /\ remoteVer \in Nat /\ folder \in BOOLEAN /\ edits \in Nat /\ commands \in Nat
    BY <1>1 DEF Init
  <2>2. /\ local \in [Workspaces -> Trees] /\ base \in [Workspaces -> Trees]
        /\ dir \in [Workspaces -> BOOLEAN] /\ blind \in [Workspaces -> BOOLEAN]
    BY <1>1 DEF Init
  <2>3. ver \in [Workspaces -> Nat]
    BY DEF Init, Initial
  <2>4. cmd \in [Workspaces -> Commands]
    BY IdleCommand DEF Init
  <2> QED BY <2>1, <2>2, <2>3, <2>4 DEF TypeOK
<1>3. Untouched
  BY DEF Init, Untouched, Present
<1>4. ASSUME NEW w \in Workspaces
      PROVE  WInv(w)
  <2>1. cmd[w].pc = "idle" /\ ver[w] \in {0, Initial} /\ remoteVer = 0 /\ (blind[w] <=> ver[w] # 0)
    BY IdleCommand DEF Init
  <2> QED BY <2>1 DEF WInv, Fresh, Compared, Prepared, Fetched, Emptied, Knowing, Agreed
<1> QED BY <1>2, <1>3, <1>4 DEF IInv

LEMMA NextInv == IInv /\ [Next]_vars => IInv'
<1> SUFFICES ASSUME IInv, [Next]_vars PROVE IInv'
  OBVIOUS
<1>1. CASE UNCHANGED vars
  <2>1. UNCHANGED <<remote, remoteVer, folder, local, dir, ver, cmd, edits, commands, base, blind>>
    BY <1>1 DEF vars, project, workspace, bounds, history
  <2> QED BY <2>1 DEF IInv, TypeOK, Untouched, WInv, Fresh, Compared, Prepared, Fetched, Emptied,
                      Knowing, Agreed, Known, Present
<1>2. ASSUME NEW w \in Workspaces, Developer(w) \/ Starts(w) \/ Continues(w)
      PROVE  IInv'
  <2>1. CASE Developer(w)
    BY <2>1, DeveloperStep
  <2>2. CASE Starts(w)
    BY <2>2, BeginStep
  <2>3. CASE MayOverride(w)
    BY <2>3, MayOverrideStep
  <2>4. CASE Pushes(w)
    <3>1. CASE CleanupFails(w)
      BY <3>1, EndStep DEF CleanupFails
    <3> QED BY <2>4, <3>1, CompareStep, PrepareMetadataStep, MigrateStep, MigrateFailsStep,
               FindEmptyFoldersStep, DeleteFolderStep DEF Pushes
  <2>5. CASE Pulls(w)
    <3>1. CASE PullFails(w)
      BY <3>1, EndStep DEF PullFails, At
    <3> QED BY <2>5, <3>1, DownloadFileStep, DownloadMetadataStep, PullEndsStep DEF Pulls
  <2> QED BY <1>2, <2>1, <2>2, <2>3, <2>4, <2>5 DEF Continues
<1> QED BY <1>1, <1>2 DEF Next

THEOREM Invariant == Spec => []IInv
  BY InitInv, NextInv, PTL DEF Spec

\* Every variable keeps to its type.
THEOREM TypeCorrect == Spec => []TypeOK
<1>1. IInv => TypeOK
  BY DEF IInv
<1> QED BY <1>1, Invariant, PTL

-------------------------------------------------------------------------------
\* Nobody else's step is taken for one's own.
LEMMA OthersStep ==
    ASSUME TypeOK, NEW w \in Workspaces, NEW x \in Workspaces \ {w}, Starts(x) \/ Continues(x)
    PROVE  ~Steps(w)
<1>1. cmd \in [Workspaces -> Commands]
  BY DEF TypeOK
<1>2. ASSUME NEW c, Becomes(x, c)
      PROVE  ~Steps(w)
  BY <1>1, <1>2 DEF Becomes, Steps
<1>3. ASSUME NEW c, cmd' = Overlapped(x, c)
      PROVE  ~Steps(w)
  BY <1>1, <1>3 DEF Overlapped, Steps
<1>4. CASE Starts(x)
  BY <1>2, <1>4 DEF Starts, Begin
<1>5. CASE MayOverride(x)
  BY <1>2, <1>5 DEF MayOverride, Ends
<1>6. CASE Pushes(x)
  <2>1. CASE \E p \in Files : Compare(x, p)
    BY <1>2, <2>1 DEF Compare
  <2>2. CASE PrepareMetadata(x)
    BY <1>2, <2>2 DEF PrepareMetadata
  <2>3. CASE MigrateFails(x)
    BY <1>2, <2>3 DEF MigrateFails
  <2>4. CASE FindEmptyFolders(x) \/ CleanupFails(x)
    BY <1>2, <2>4 DEF FindEmptyFolders, CleanupFails, Ends
  <2>5. CASE Migrate(x) \/ DeleteFolder(x)
    BY <1>3, <2>5 DEF Migrate, DeleteFolder
  <2> QED BY <1>6, <2>1, <2>2, <2>3, <2>4, <2>5 DEF Pushes
<1>7. CASE Pulls(x)
  BY <1>2, <1>7 DEF Pulls, DownloadFile, DownloadMetadata, PullFails, PullEnds, Ends
<1> QED BY <1>4, <1>5, <1>6, <1>7 DEF Continues

\* Only two steps of a command change the project.
LEMMA ProjectStep ==
    ASSUME TypeOK, NEW w \in Workspaces, Next, Steps(w)
    PROVE  Migrate(w) \/ DeleteFolder(w) \/ UNCHANGED project
<1>1. PICK x \in Workspaces : Developer(x) \/ Starts(x) \/ Continues(x)
  BY DEF Next
<1>2. ~Developer(x)
  BY DEF Developer, Edit, RemoveFolder, Steps
<1>3. x = w
  BY <1>1, <1>2, OthersStep
<1>4. CASE Starts(w)
  BY <1>4 DEF Starts, Begin
<1>5. CASE MayOverride(w)
  BY <1>5 DEF MayOverride
<1>6. CASE Pushes(w)
  BY <1>6 DEF Pushes, Compare, PrepareMetadata, MigrateFails, FindEmptyFolders, CleanupFails
<1>7. CASE Pulls(w)
  BY <1>7 DEF Pulls, DownloadFile, DownloadMetadata, PullFails, PullEnds
<1> QED BY <1>1, <1>2, <1>3, <1>4, <1>5, <1>6, <1>7 DEF Continues

\* The folder that is deleted was empty.
LEMMA NothingDeleted ==
    ASSUME IInv, NEW w \in Workspaces, DeleteFolder(w), ~cmd[w].overlap
    PROVE  remote' = remote
<1>1. remote \in Trees /\ Present(remote) \cap InFolder = {}
  BY DEF IInv, TypeOK, WInv, Emptied, DeleteFolder, At
<1>2. \A p \in InFolder \cap Files : remote[p] = 0
  BY <1>1 DEF Present
<1>3. remote' = [p \in Files |-> IF p \in InFolder THEN 0 ELSE remote[p]]
  BY DEF DeleteFolder
<1> QED BY <1>1, <1>2, <1>3 DEF Trees

\* A push that did not ask overwrites only what its developer knows
\* (_common.py:152-194, sw_file_handler.py:251-285, 460-489).
THEOREM NothingIsLostSilently == Spec => NoSilentLoss
<1>1. IInv /\ [Next]_vars =>
        [\A w \in Workspaces :
            Steps(w) /\ ~cmd[w].asked /\ ~cmd[w].overlap /\ ~blind[w] =>
              \A p \in Files : Overwrites(p) => base[w][p] = remote[p]]_vars
  <2> SUFFICES ASSUME IInv, Next, NEW w \in Workspaces, Steps(w),
                      ~cmd[w].asked, ~cmd[w].overlap, ~blind[w],
                      NEW p \in Files, Overwrites(p)
               PROVE  base[w][p] = remote[p]
    OBVIOUS
  <2>1. CASE Migrate(w)
    <3>1. Known(w)
      BY <2>1 DEF IInv, WInv, Agreed, Migrate, At
    <3> QED BY <3>1 DEF Known, Overwrites
  <2>2. CASE DeleteFolder(w)
    BY <2>2, NothingDeleted DEF Overwrites
  <2>3. CASE UNCHANGED project
    BY <2>3 DEF project, Overwrites
  <2> QED BY <2>1, <2>2, <2>3, ProjectStep DEF IInv
<1> QED BY <1>1, Invariant, PTL DEF Spec, NoSilentLoss

\* A push that reaches the project raises its version (sw_file_handler.py:460-489).
THEOREM VersionsGrow == Spec => VersionGrows
<1>1. IInv /\ [Next]_vars =>
        [\A w \in Workspaces :
            Steps(w) /\ At(w, "migrate") /\ ~cmd[w].overlap /\ ~cmd[w].unread /\ remote' # remote =>
              remoteVer' > remoteVer]_vars
  <2> SUFFICES ASSUME IInv, Next, NEW w \in Workspaces, Steps(w), At(w, "migrate"),
                      ~cmd[w].overlap, ~cmd[w].unread, remote' # remote
               PROVE  remoteVer' > remoteVer
    OBVIOUS
  <2>1. Migrate(w)
    BY ProjectStep DEF IInv, DeleteFolder, At, project
  <2>2. remoteVer' = ver[w] /\ ver[w] > remoteVer
    BY <2>1 DEF Migrate, IInv, WInv, Prepared, At
  <2> QED BY <2>2
<1> QED BY <1>1, Invariant, PTL DEF Spec, VersionGrows

\* An undisturbed command does what it is for: a push mirrors the workspace, a
\* pull brings the project, the clean-up deletes no file
\* (sw_file_handler.py:130-396, _project_files.py:585-663).
THEOREM CommandsAreFaithful == Spec => Undisturbed
<1>1. IInv /\ [Next]_vars =>
        [\A w \in Workspaces :
            Steps(w) /\ At(w, "migrate") /\ ~cmd[w].overlap /\ project' # project =>
              \A p \in Files : dir[w] \/ p \notin Prefixed => remote'[p] = local[w][p]]_vars
  <2> SUFFICES ASSUME IInv, Next, NEW w \in Workspaces, Steps(w), At(w, "migrate"),
                      ~cmd[w].overlap, project' # project
               PROVE  \A p \in Files : dir[w] \/ p \notin Prefixed => remote'[p] = local[w][p]
    OBVIOUS
  <2>1. Migrate(w)
    BY ProjectStep DEF IInv, DeleteFolder, At
  <2> QED BY <2>1, MigratedIs DEF Migrate, At
<1>2. IInv /\ [Next]_vars =>
        [\A w \in Workspaces :
            At(w, "download") /\ cmd[w].todo = {} /\ Steps(w) /\ ~cmd[w].overlap =>
              /\ \A p \in Present(remote) : local[w][p] = remote[p]
              /\ remoteVer # 0 => ver[w] = remoteVer]_vars
  BY PulledIs DEF At
<1>3. IInv /\ [Next]_vars =>
        [\A w \in Workspaces :
            At(w, "rmdir") /\ Steps(w) /\ ~cmd[w].overlap => remote' = remote]_vars
  <2> SUFFICES ASSUME IInv, Next, NEW w \in Workspaces, At(w, "rmdir"), Steps(w), ~cmd[w].overlap
               PROVE  remote' = remote
    OBVIOUS
  <2>1. DeleteFolder(w) \/ UNCHANGED project
    BY ProjectStep DEF IInv, Migrate, At
  <2> QED BY <2>1, NothingDeleted DEF project
<1>4. Spec => PushMirrors
  BY <1>1, Invariant, PTL DEF Spec, PushMirrors
<1>5. Spec => PullBringsAll
  BY <1>2, Invariant, PTL DEF Spec, PullBringsAll
<1>6. Spec => CleanupHarmless
  BY <1>3, Invariant, PTL DEF Spec, CleanupHarmless
<1> QED BY <1>4, <1>5, <1>6 DEF Undisturbed

-------------------------------------------------------------------------------
(***************************************************************************)
(* Isolation of the jobs of JobServer, for any number of them.             *)
(*                                                                         *)
(* The argument: while the server is up, a job's thread runs only between  *)
(* its taking the lock and its giving it back, so one at most runs, and    *)
(* original_cwd of the holder is the server's own directory because the    *)
(* directory was restored before the lock was free, which fails only if    *)
(* the server's directory is out of reach.  Both fail once the server is   *)
(* down, when a thread outlives its request.                               *)
(***************************************************************************)

\* A thread is there only for a request that has had the lock.
ThreadsAreStarted == \A j \in Jobs : request[j] \in {"none", "waiting"} => thread[j] = "none"

\* The holder of the lock is the one request that runs, and a thread that
\* runs is the holder's.
HolderRuns ==
    up => /\ \A j \in Jobs : request[j] = "running" <=> holder = j
          /\ \A j \in Jobs : thread[j] = "running" => holder = j

\* What is put back when the lock is given back is the server's; the directory
\* as long as the server's own can be entered.
Restorable ==
    up => /\ holder = Server => /\ env = {Server}
                                /\ Server \notin missing => cwd = Server
          /\ holder # Server =>
                /\ env = {Server, holder}
                /\ holder \notin Homeless => cwd = holder
                /\ Server \notin missing => original = Server /\ cwd \in {Server, holder}

JobIInv == Job!TypeOK /\ ThreadsAreStarted /\ HolderRuns /\ Restorable

-------------------------------------------------------------------------------
LEMMA JobInitInv == Job!ServerAssumption /\ Job!Init => JobIInv
  BY DEF Job!ServerAssumption, Job!Init, JobIInv, Job!TypeOK, ThreadsAreStarted, HolderRuns, Restorable

LEMMA JobNextInv == Job!ServerAssumption /\ JobIInv /\ [Job!Next]_(Job!vars) => JobIInv'
<1> SUFFICES ASSUME Job!ServerAssumption, JobIInv, [Job!Next]_(Job!vars) PROVE JobIInv'
  OBVIOUS
<1> USE DEF Job!ServerAssumption
<1> USE DEF JobIInv, Job!TypeOK, Job!requests, Job!process, Job!work
<1>1. ASSUME NEW j \in Jobs, Job!Refuse(j) PROVE JobIInv'
  BY <1>1 DEF Job!Refuse, ThreadsAreStarted, HolderRuns, Restorable
<1>2. ASSUME NEW j \in Jobs, Job!Request(j) PROVE JobIInv'
  BY <1>2 DEF Job!Request, ThreadsAreStarted, HolderRuns, Restorable
<1>3. ASSUME NEW j \in Jobs, Job!Start(j) PROVE JobIInv'
  <2>1. CASE Job!Adrift(j)
    BY <1>3, <2>1 DEF Job!Start, Job!Adrift, Job!LockFree, ThreadsAreStarted, HolderRuns, Restorable
  <2>2. CASE Job!NoPlace(j)
    <3>1. Job!TypeOK'
      BY <1>3, <2>2 DEF Job!Start, Job!NoPlace, Job!LockFree, Job!LeftEnv
    <3>2. ThreadsAreStarted' /\ HolderRuns'
      BY <1>3, <2>2 DEF Job!Start, Job!NoPlace, Job!LockFree, ThreadsAreStarted, HolderRuns
    <3>3. Restorable'
      BY <1>3, <2>2 DEF Job!Start, Job!NoPlace, Job!LockFree, Job!LeftEnv, Restorable
    <3> QED BY <3>1, <3>2, <3>3
  <2>3. CASE Job!Enter(j)
    <3>1. Job!TypeOK'
      BY <1>3, <2>3 DEF Job!Start, Job!Enter, Job!LockFree, Job!StartEnv
    <3>2. ThreadsAreStarted'
      BY <1>3, <2>3 DEF Job!Start, Job!Enter, ThreadsAreStarted
    <3>3. HolderRuns'
      BY <1>3, <2>3 DEF Job!Start, Job!Enter, Job!LockFree, HolderRuns
    <3>4. Restorable'
      BY <1>3, <2>3 DEF Job!Start, Job!Enter, Job!LockFree, Job!StartEnv, Restorable
    <3> QED BY <3>1, <3>2, <3>3, <3>4
  <2> QED BY <1>3, <2>1, <2>2, <2>3 DEF Job!Start
<1>4. ASSUME NEW j \in Jobs, Job!JobWrites(j) PROVE JobIInv'
  BY <1>4 DEF Job!JobWrites, ThreadsAreStarted, HolderRuns, Restorable
<1>5. ASSUME NEW j \in Jobs, Job!JobEnds(j) PROVE JobIInv'
  BY <1>5 DEF Job!JobEnds, ThreadsAreStarted, HolderRuns, Restorable
<1>6. ASSUME NEW j \in Jobs, Job!Finish(j) PROVE JobIInv'
  <2>1. Job!TypeOK'
    BY <1>6 DEF Job!Finish, Job!HolderAfter, Job!LeftEnv, Job!LeftCwd, Job!Answer
  <2>2. ThreadsAreStarted'
    BY <1>6 DEF Job!Finish, ThreadsAreStarted
  <2>3. HolderRuns'
    BY <1>6 DEF Job!Finish, Job!HolderAfter, HolderRuns
  <2>4. Restorable'
    BY <1>6 DEF Job!Finish, Job!HolderAfter, Job!LeftEnv, Job!LeftCwd, HolderRuns, Restorable
  <2> QED BY <2>1, <2>2, <2>3, <2>4
<1>7. ASSUME NEW j \in Jobs, Job!StopJob(j) PROVE JobIInv'
  BY <1>7 DEF Job!StopJob, ThreadsAreStarted, HolderRuns, Restorable
<1>8. CASE Job!ShutDown
  <2>1. Job!TypeOK'
    <3>1. request' \in [Jobs -> {"none", "waiting", "running", "replied", "cancelled"}]
      BY <1>8 DEF Job!ShutDown
    <3>2. env' \subseteq Jobs \cup {Server} /\ cwd' \in Jobs \cup {Server}
      BY <1>8 DEF Job!ShutDown, Job!LeftEnv, Job!LeftCwd
    <3>3. up' = FALSE /\ waiters' = <<>> /\ holder' = Server
      BY <1>8 DEF Job!ShutDown
    <3>4. <<>> \in Seq(Jobs)
      OBVIOUS
    <3> QED BY <1>8, <3>1, <3>2, <3>3, <3>4 DEF Job!ShutDown
  <2>2. ThreadsAreStarted'
    BY <1>8 DEF Job!ShutDown, ThreadsAreStarted
  <2>3. HolderRuns' /\ Restorable'
    BY <1>8 DEF Job!ShutDown, HolderRuns, Restorable
  <2> QED BY <2>1, <2>2, <2>3
<1>9. ASSUME NEW d \in Fragile, Job!GoMissing(d) PROVE JobIInv'
  BY <1>9 DEF Job!GoMissing, ThreadsAreStarted, HolderRuns, Restorable
<1>10. CASE UNCHANGED Job!vars
  BY <1>10 DEF Job!vars, ThreadsAreStarted, HolderRuns, Restorable
<1> QED
  BY <1>1, <1>2, <1>3, <1>4, <1>5, <1>6, <1>7, <1>8, <1>9, <1>10 DEF Job!Next

LEMMA JobInvariant == Job!ServerAssumption => (Job!Spec => []JobIInv)
<1> SUFFICES ASSUME Job!ServerAssumption PROVE Job!Spec => []JobIInv
  OBVIOUS
<1>1. Job!Init => JobIInv
  BY JobInitInv
<1>2. JobIInv /\ [Job!Next]_(Job!vars) => JobIInv'
  BY JobNextInv
<1> QED BY <1>1, <1>2, PTL DEF Job!Spec

\* The state of the server and of each request stays of its type
\* (_server_core.py, cli_server.py, cli_server_ipc.py).
THEOREM JobTypeCorrect == Job!Spec => []Job!TypeOK
<1> QED BY JobsAreAssumed, JobInvariant, PTL DEF JobIInv

\* No variable of a job is seen by another, or stays in the process when it is
\* over, whatever the job did and however it ended; nor its directory, whatever
\* became of other directories, unless the server's own went out of reach
\* (_server_core.py:58-108).
THEOREM JobsAreIsolated == Job!Spec => []NothingLeaks
<1>1. JobIInv => NothingLeaks
  BY JobsAreAssumed DEF Job!ServerAssumption, JobIInv, HolderRuns, Restorable, NothingLeaks, Job!NothingLeaks
<1> QED BY <1>1, JobsAreAssumed, JobInvariant, PTL

-------------------------------------------------------------------------------
(***************************************************************************)
(* DebugSession, for any program, breakpoints and commands.                *)
(*                                                                         *)
(* The argument: a breakpoint event is the last of the queue, and of the   *)
(* thread that waits where it says (Queued), so whoever takes it finds the *)
(* thread there, and nobody wakes it until the next stream does (Frozen).  *)
(* An answer that is on its way while a pause is waited for is the answer  *)
(* to that pause, unless the debugger repeated one (Numbered).             *)
(***************************************************************************)

EventRecords == [type : {"state", "completed", "error"}] \cup [type : {"breakpoint"}, at : Debug!Pauses]

\* The program's types, where TypeOK leaves out what is a function or a sequence.
Typed ==
    /\ Debug!TypeOK
    /\ hits \in [Debug!Frames -> SUBSET {e.line : e \in Debug!Lines}]
    /\ events \in Seq(EventRecords)
    /\ tpc \in {"tracing", "hit", "woken"} => pos < Len(Program)

\* The session is over, or has not begun.
Over == spc \in {"ended", "stopping", "joining", "disposed"}
Paused == spc \in {"hit", "emitted", "waiting", "updated"} \/ (spc = "ready" /\ controller)

\* Before the first stream, and while the stream drains: a breakpoint is the
\* last of the queue, of the thread that waits in it.
Begun ==
    /\ spc = "ready" => (controller <=> pause > 0)
    /\ spc \in {"updated", "draining", "hit", "emitted", "waiting"} => controller
    /\ spc \in {"updated", "hit", "emitted", "waiting"} => pause > 0
    /\ spc = "ready" /\ ~controller => tpc = "none" /\ events = <<>> /\ ~resume
Queued ==
    spc = "draining" =>
        /\ tpc \in {"hit", "woken"} \/ ~resume
        /\ \A i \in DOMAIN events :
              events[i].type = "breakpoint" =>
                  i = Len(events) /\ tpc = "hit" /\ ~resume /\ events[i].at = pos
        /\ tpc = "none" => events = <<>>

\* A pause was counted once, before the line it stands at was left.
Counted ==
    ~Over =>
        pause <= IF Paused \/ (tpc = "hit" /\ resume) \/ tpc = "woken" THEN pos + 1 ELSE pos

\* A debugger that does not repeat itself has answered the pause it was shown,
\* or is about to; its answer is on the way, or has ended the wait.
Numbered ==
    ~repeated /\ ~Over =>
        /\ answered = shown \/ (spc \in {"emitted", "waiting"} /\ shown = pause /\ inbox = <<>>)
        /\ inbox = <<>> \/ (spc \in {"emitted", "waiting"} /\ inbox = <<pause>>)
        /\ spc = "waiting" /\ resumeEvent = "set" =>
              resumedBy = pause /\ inbox = <<>> /\ answered = shown

DebugIInv == Typed /\ Begun /\ Debug!Frozen /\ Queued /\ Counted /\ Numbered
-------------------------------------------------------------------------------
LEMMA TypesAre ==
    ASSUME Typed
    PROVE  /\ pos \in 0 .. Len(Program) /\ pause \in 0 .. Len(Program) /\ hitAt \in 0 .. Len(Program)
           /\ traced \subseteq Debug!Frames /\ hits \in [Debug!Frames -> SUBSET {e.line : e \in Debug!Lines}]
           /\ active \subseteq Debug!Breakpoints /\ wanted \subseteq Debug!Breakpoints
           /\ events \in Seq(EventRecords) /\ inbox \in Seq(Debug!Pauses)
           /\ shown \in 0 .. Len(Program) /\ answered \in 0 .. Len(Program) /\ resumedBy \in 0 .. Len(Program)
           /\ changes \in 0 .. Edits /\ losses \in 0 .. Losses
           /\ Debug!Pauses = 0 .. Len(Program)
  BY DEF Typed, Debug!TypeOK, Debug!Pauses

LEMMA LenIs == ASSUME Debug!DebugAssumption PROVE Len(Program) \in Nat
  BY DEF Debug!DebugAssumption

LEMMA StagesAre ==
    ASSUME Typed
    PROVE  /\ tpc \in {"none", "running", "tracing", "hit", "woken", "ended"}
           /\ spc \in {"ready", "updated", "draining", "hit", "emitted", "waiting", "ended",
                       "stopping", "joining", "disposed"}
           /\ resumeEvent \in {"none", "clear", "set"}
  BY DEF Typed, Debug!TypeOK

LEMMA EntryOf == ASSUME NEW S, NEW q \in Seq(S), NEW i \in 1 .. Len(q) PROVE q[i] \in S
  OBVIOUS

\* The next trace event is one of the program's.
LEMMA AtIs ==
    ASSUME Debug!DebugAssumption, Typed, pos < Len(Program)
    PROVE  /\ Debug!At.frame \in Debug!Frames /\ Len(Program) \in Nat
           /\ Debug!At.kind = "line" => Debug!At.line \in {e.line : e \in Debug!Lines}
<1>1. Program \in Seq([kind : {"call", "line", "return"}, frame : Debug!Frames, line : Nat]) /\ Len(Program) \in Nat
  BY DEF Debug!DebugAssumption
<1>2. pos + 1 \in DOMAIN Program /\ pos + 1 \in 1 .. Len(Program)
  BY <1>1, TypesAre
<1>3. Debug!At \in [kind : {"call", "line", "return"}, frame : Debug!Frames, line : Nat]
  BY <1>1, <1>2, EntryOf DEF Debug!At
<1>4. Debug!At.kind = "line" => Debug!At \in Debug!Lines
  BY <1>2 DEF Debug!At, Debug!Lines
<1> QED BY <1>1, <1>3, <1>4

\* What Typed says of the events and of the rest.
LEMMA EventsTyped ==
    ASSUME NEW es \in Seq(EventRecords)
    PROVE  \A i \in DOMAIN es : es[i].type \in {"state", "breakpoint", "completed", "error"}
  BY DEF EventRecords

LEMMA StateEventIs == ASSUME Typed PROVE Debug!StateEvent \in {events, Append(events, [type |-> "state"])}
  BY DEF Debug!StateEvent

LEMMA AppendIs ==
    ASSUME NEW S, NEW q \in Seq(S), NEW x \in S
    PROVE  /\ Append(q, x) \in Seq(S) /\ Len(Append(q, x)) = Len(q) + 1
           /\ \A i \in DOMAIN Append(q, x) : (i \in DOMAIN q /\ Append(q, x)[i] = q[i]) \/ (i = Len(q) + 1
              /\ Append(q, x)[i] = x)
  OBVIOUS

LEMMA HeadIs ==
    ASSUME NEW S, NEW q \in Seq(S), q # <<>>
    PROVE  /\ Head(q) = q[1] /\ Head(q) \in S /\ 1 \in DOMAIN q /\ Tail(q) \in Seq(S)
           /\ Len(q) \in Nat /\ (Len(q) = 1 => Tail(q) = <<>>)
<1>1. Head(q) = q[1] /\ Tail(q) \in Seq(S) /\ Len(q) \in Nat /\ Len(q) # 0
  OBVIOUS
<1>2. 1 \in DOMAIN q
  BY <1>1
<1>3. Len(Tail(q)) = Len(q) - 1
  OBVIOUS
<1> QED BY <1>1, <1>2, <1>3

\* A state event breaks nothing.
LEMMA AppendState ==
    ASSUME Typed
    PROVE  LET es == Append(events, [type |-> "state"])
           IN  /\ es \in Seq(EventRecords)
               /\ \A i \in DOMAIN es : (i \in DOMAIN events /\ es[i] = events[i]) \/ es[i] = [type |-> "state"]
<1>1. [type |-> "state"] \in EventRecords
  BY DEF EventRecords
<1> DEFINE es == Append(events, [type |-> "state"])
<1>2. es \in Seq(EventRecords)
  BY <1>1, AppendIs, TypesAre
<1>3. \A i \in DOMAIN es : (i \in DOMAIN events /\ es[i] = events[i]) \/ es[i] = [type |-> "state"]
  BY <1>1, AppendIs, TypesAre
<1> QED BY <1>2, <1>3

LEMMA CallbackInv == ASSUME Debug!DebugAssumption, DebugIInv, Debug!Callback PROVE DebugIInv'
<1> USE DEF DebugIInv, Debug!Callback, Debug!thread, Debug!session, Debug!bridge, Debug!debugger
<1>1. Typed'
  <2>1. /\ stepMode' \in BOOLEAN /\ resume' \in BOOLEAN /\ halted' \in BOOLEAN /\ controller' \in BOOLEAN
        /\ getter' \in BOOLEAN /\ step' \in BOOLEAN /\ terminate' \in BOOLEAN /\ repeated' \in BOOLEAN
    BY DEF Typed, Debug!TypeOK
  <2>2. hits' \in [Debug!Frames -> SUBSET {e.line : e \in Debug!Lines}] /\ traced' \subseteq Debug!Frames
    BY TypesAre, AtIs DEF Typed
  <2>3. events' \in Seq(EventRecords)
    BY TypesAre DEF EventRecords
  <2>4. inbox' \in Seq(Debug!Pauses)
    BY TypesAre
  <2>5. pos' \in 0 .. Len(Program) /\ (tpc' \in {"tracing", "hit", "woken"} => pos' < Len(Program))
    BY TypesAre, LenIs DEF Typed
  <2>6. active' \subseteq Debug!Breakpoints /\ wanted' \subseteq Debug!Breakpoints
    BY TypesAre DEF Debug!Given
  <2>7. pause' \in Debug!Pauses /\ hitAt' \in Debug!Pauses /\ shown' \in Debug!Pauses
          /\ answered' \in Debug!Pauses /\ resumedBy' \in Debug!Pauses
    BY TypesAre
  <2>8. changes' \in 0 .. Edits /\ losses' \in 0 .. Losses
    BY TypesAre, Debug!DebugAssumption DEF Debug!DebugAssumption
  <2> QED BY <2>1, <2>2, <2>3, <2>4, <2>5, <2>6, <2>7, <2>8, TypesAre, StagesAre, EventsTyped
             DEF Typed, Debug!TypeOK
<1>2. Begun'
  BY TypesAre, StagesAre DEF Begun
<1>3. Debug!Frozen'
  BY TypesAre, StagesAre DEF Debug!Frozen, Begun
<1>4. Queued'
  BY TypesAre, StagesAre DEF Queued, Begun, Debug!Frozen
<1>5. Counted'
  BY TypesAre, StagesAre DEF Counted, Begun, Debug!Frozen, Queued, Over, Paused
<1>6. Numbered'
  BY TypesAre, StagesAre DEF Numbered, Begun, Over
<1> QED BY <1>1, <1>2, <1>3, <1>4, <1>5, <1>6

LEMMA TraceCallInv == ASSUME Debug!DebugAssumption, DebugIInv, Debug!TraceCall PROVE DebugIInv'
<1> USE DEF DebugIInv, Debug!TraceCall, Debug!thread, Debug!session, Debug!bridge, Debug!debugger,
       Debug!Proceeds, Debug!StateEvent
<1>1. Typed'
  <2>1. /\ stepMode' \in BOOLEAN /\ resume' \in BOOLEAN /\ halted' \in BOOLEAN /\ controller' \in BOOLEAN
        /\ getter' \in BOOLEAN /\ step' \in BOOLEAN /\ terminate' \in BOOLEAN /\ repeated' \in BOOLEAN
    BY DEF Typed, Debug!TypeOK
  <2>2. hits' \in [Debug!Frames -> SUBSET {e.line : e \in Debug!Lines}] /\ traced' \subseteq Debug!Frames
    BY TypesAre, AtIs DEF Typed
  <2>3. events' \in Seq(EventRecords)
    BY TypesAre DEF EventRecords
  <2>4. inbox' \in Seq(Debug!Pauses)
    BY TypesAre
  <2>5. pos' \in 0 .. Len(Program) /\ (tpc' \in {"tracing", "hit", "woken"} => pos' < Len(Program))
    BY TypesAre, LenIs DEF Typed
  <2>6. active' \subseteq Debug!Breakpoints /\ wanted' \subseteq Debug!Breakpoints
    BY TypesAre DEF Debug!Given
  <2>7. pause' \in Debug!Pauses /\ hitAt' \in Debug!Pauses /\ shown' \in Debug!Pauses
          /\ answered' \in Debug!Pauses /\ resumedBy' \in Debug!Pauses
    BY TypesAre
  <2>8. changes' \in 0 .. Edits /\ losses' \in 0 .. Losses
    BY TypesAre, Debug!DebugAssumption DEF Debug!DebugAssumption
  <2> QED BY <2>1, <2>2, <2>3, <2>4, <2>5, <2>6, <2>7, <2>8, TypesAre, StagesAre, EventsTyped
             DEF Typed, Debug!TypeOK
<1>2. Begun'
  BY TypesAre, StagesAre DEF Begun
<1>3. Debug!Frozen'
  BY TypesAre, StagesAre DEF Debug!Frozen, Begun
<1>4. Queued'
  BY TypesAre, StagesAre DEF Queued, Begun, Debug!Frozen
<1>5. Counted'
  BY TypesAre, StagesAre DEF Counted, Begun, Debug!Frozen, Queued, Over, Paused
<1>6. Numbered'
  BY TypesAre, StagesAre DEF Numbered, Begun, Over
<1> QED BY <1>1, <1>2, <1>3, <1>4, <1>5, <1>6

LEMMA TraceReturnInv == ASSUME Debug!DebugAssumption, DebugIInv, Debug!TraceReturn PROVE DebugIInv'
<1> USE DEF DebugIInv, Debug!TraceReturn, Debug!thread, Debug!session, Debug!bridge, Debug!debugger,
       Debug!Proceeds, Debug!StateEvent
<1>a. /\ events' \in {events, Append(events, [type |-> "state"])}
      /\ pos' = pos + 1 /\ pos < Len(Program) /\ Len(Program) \in Nat /\ tpc' = "running"
  BY StateEventIs, AtIs, TypesAre DEF Typed
<1>b. events' \in Seq(EventRecords)
  BY <1>a, AppendState, TypesAre
<1>1. Typed'
  <2>1. /\ stepMode' \in BOOLEAN /\ resume' \in BOOLEAN /\ halted' \in BOOLEAN /\ controller' \in BOOLEAN
        /\ getter' \in BOOLEAN /\ step' \in BOOLEAN /\ terminate' \in BOOLEAN /\ repeated' \in BOOLEAN
    BY DEF Typed, Debug!TypeOK
  <2>2. hits' \in [Debug!Frames -> SUBSET {e.line : e \in Debug!Lines}] /\ traced' \subseteq Debug!Frames
    BY TypesAre, AtIs DEF Typed
  <2>3. events' \in Seq(EventRecords)
    BY <1>b
  <2>4. inbox' \in Seq(Debug!Pauses)
    BY TypesAre
  <2>5. pos' \in 0 .. Len(Program) /\ (tpc' \in {"tracing", "hit", "woken"} => pos' < Len(Program))
    BY <1>a, TypesAre
  <2>6. active' \subseteq Debug!Breakpoints /\ wanted' \subseteq Debug!Breakpoints
    BY TypesAre DEF Debug!Given
  <2>7. pause' \in Debug!Pauses /\ hitAt' \in Debug!Pauses /\ shown' \in Debug!Pauses
          /\ answered' \in Debug!Pauses /\ resumedBy' \in Debug!Pauses
    BY TypesAre
  <2>8. changes' \in 0 .. Edits /\ losses' \in 0 .. Losses
    BY TypesAre, Debug!DebugAssumption DEF Debug!DebugAssumption
  <2> QED BY <2>1, <2>2, <2>3, <2>4, <2>5, <2>6, <2>7, <2>8, TypesAre, StagesAre, EventsTyped
             DEF Typed, Debug!TypeOK
<1>2. Begun'
  BY TypesAre, StagesAre DEF Begun
<1>3. Debug!Frozen'
  BY TypesAre, StagesAre DEF Debug!Frozen, Begun
<1>4. Queued'
  <2>1. tpc = "tracing" => ~(\E i \in DOMAIN events : events[i].type = "breakpoint") \/ spc # "draining"
    BY DEF Queued
  <2>2. \A i \in DOMAIN events' : (i \in DOMAIN events /\ events'[i] = events[i]) \/ events'[i] = [type |-> "state"]
    BY <1>a, AppendState
  <2> QED BY <1>a, <2>1, <2>2 DEF Queued
<1>5. Counted'
  BY TypesAre, StagesAre DEF Counted, Begun, Debug!Frozen, Queued, Over, Paused
<1>6. Numbered'
  BY TypesAre, StagesAre DEF Numbered, Begun, Over
<1> QED BY <1>1, <1>2, <1>3, <1>4, <1>5, <1>6

LEMMA TraceLineInv == ASSUME Debug!DebugAssumption, DebugIInv, Debug!TraceLine PROVE DebugIInv'
<1> USE
       DEF DebugIInv, Debug!TraceLine, Debug!thread, Debug!session, Debug!bridge, Debug!debugger, Debug!Proceeds
<1>a. pos' = pos + 1 /\ pos < Len(Program) /\ Len(Program) \in Nat /\ tpc' = "running"
  BY AtIs, TypesAre DEF Typed
<1>1. Typed'
  <2>1. /\ stepMode' \in BOOLEAN /\ resume' \in BOOLEAN /\ halted' \in BOOLEAN /\ controller' \in BOOLEAN
        /\ getter' \in BOOLEAN /\ step' \in BOOLEAN /\ terminate' \in BOOLEAN /\ repeated' \in BOOLEAN
    BY DEF Typed, Debug!TypeOK
  <2>2. hits' \in [Debug!Frames -> SUBSET {e.line : e \in Debug!Lines}] /\ traced' \subseteq Debug!Frames
    BY TypesAre, AtIs DEF Typed
  <2>3. events' \in Seq(EventRecords)
    BY TypesAre DEF EventRecords
  <2>4. inbox' \in Seq(Debug!Pauses)
    BY TypesAre
  <2>5. pos' \in 0 .. Len(Program) /\ (tpc' \in {"tracing", "hit", "woken"} => pos' < Len(Program))
    BY <1>a, TypesAre
  <2>6. active' \subseteq Debug!Breakpoints /\ wanted' \subseteq Debug!Breakpoints
    BY TypesAre DEF Debug!Given
  <2>7. pause' \in Debug!Pauses /\ hitAt' \in Debug!Pauses /\ shown' \in Debug!Pauses
          /\ answered' \in Debug!Pauses /\ resumedBy' \in Debug!Pauses
    BY TypesAre
  <2>8. changes' \in 0 .. Edits /\ losses' \in 0 .. Losses
    BY TypesAre, Debug!DebugAssumption DEF Debug!DebugAssumption
  <2> QED BY <2>1, <2>2, <2>3, <2>4, <2>5, <2>6, <2>7, <2>8, TypesAre, StagesAre, EventsTyped
             DEF Typed, Debug!TypeOK
<1>2. Begun'
  BY TypesAre, StagesAre DEF Begun
<1>3. Debug!Frozen'
  BY TypesAre, StagesAre DEF Debug!Frozen, Begun
<1>4. Queued'
  BY TypesAre, StagesAre DEF Queued, Begun, Debug!Frozen
<1>5. Counted'
  BY TypesAre, StagesAre DEF Counted, Begun, Debug!Frozen, Queued, Over, Paused
<1>6. Numbered'
  BY TypesAre, StagesAre DEF Numbered, Begun, Over
<1> QED BY <1>1, <1>2, <1>3, <1>4, <1>5, <1>6

LEMMA TraceBreakInv == ASSUME Debug!DebugAssumption, DebugIInv, Debug!TraceBreak PROVE DebugIInv'
<1> USE DEF DebugIInv, Debug!TraceBreak, Debug!thread, Debug!session, Debug!bridge, Debug!debugger
<1>1. Typed'
  <2>1. /\ stepMode' \in BOOLEAN /\ resume' \in BOOLEAN /\ halted' \in BOOLEAN /\ controller' \in BOOLEAN
        /\ getter' \in BOOLEAN /\ step' \in BOOLEAN /\ terminate' \in BOOLEAN /\ repeated' \in BOOLEAN
    BY DEF Typed, Debug!TypeOK
  <2>2. hits' \in [Debug!Frames -> SUBSET {e.line : e \in Debug!Lines}] /\ traced' \subseteq Debug!Frames
    BY TypesAre, AtIs DEF Typed
  <2>3. events' \in Seq(EventRecords)
    BY TypesAre DEF EventRecords
  <2>4. inbox' \in Seq(Debug!Pauses)
    BY TypesAre
  <2>5. pos' \in 0 .. Len(Program) /\ (tpc' \in {"tracing", "hit", "woken"} => pos' < Len(Program))
    BY TypesAre, LenIs DEF Typed
  <2>6. active' \subseteq Debug!Breakpoints /\ wanted' \subseteq Debug!Breakpoints
    BY TypesAre DEF Debug!Given
  <2>7. pause' \in Debug!Pauses /\ hitAt' \in Debug!Pauses /\ shown' \in Debug!Pauses
          /\ answered' \in Debug!Pauses /\ resumedBy' \in Debug!Pauses
    BY TypesAre
  <2>8. changes' \in 0 .. Edits /\ losses' \in 0 .. Losses
    BY TypesAre, Debug!DebugAssumption DEF Debug!DebugAssumption
  <2> QED BY <2>1, <2>2, <2>3, <2>4, <2>5, <2>6, <2>7, <2>8, TypesAre, StagesAre, EventsTyped
             DEF Typed, Debug!TypeOK
<1>2. Begun'
  BY TypesAre, StagesAre DEF Begun
<1>3. Debug!Frozen'
  BY TypesAre, StagesAre DEF Debug!Frozen, Begun
<1>4. Queued'
  BY TypesAre, StagesAre DEF Queued, Begun, Debug!Frozen
<1>5. Counted'
  BY TypesAre, StagesAre DEF Counted, Begun, Debug!Frozen, Queued, Over, Paused
<1>6. Numbered'
  BY TypesAre, StagesAre DEF Numbered, Begun, Over
<1> QED BY <1>1, <1>2, <1>3, <1>4, <1>5, <1>6

LEMMA WakeInv == ASSUME Debug!DebugAssumption, DebugIInv, Debug!Wake PROVE DebugIInv'
<1> USE DEF DebugIInv, Debug!Wake, Debug!thread, Debug!session, Debug!bridge, Debug!debugger
<1>1. Typed'
  <2>1. /\ stepMode' \in BOOLEAN /\ resume' \in BOOLEAN /\ halted' \in BOOLEAN /\ controller' \in BOOLEAN
        /\ getter' \in BOOLEAN /\ step' \in BOOLEAN /\ terminate' \in BOOLEAN /\ repeated' \in BOOLEAN
    BY DEF Typed, Debug!TypeOK
  <2>2. hits' \in [Debug!Frames -> SUBSET {e.line : e \in Debug!Lines}] /\ traced' \subseteq Debug!Frames
    BY TypesAre, AtIs DEF Typed
  <2>3. events' \in Seq(EventRecords)
    BY TypesAre DEF EventRecords
  <2>4. inbox' \in Seq(Debug!Pauses)
    BY TypesAre
  <2>5. pos' \in 0 .. Len(Program) /\ (tpc' \in {"tracing", "hit", "woken"} => pos' < Len(Program))
    BY TypesAre, LenIs DEF Typed
  <2>6. active' \subseteq Debug!Breakpoints /\ wanted' \subseteq Debug!Breakpoints
    BY TypesAre DEF Debug!Given
  <2>7. pause' \in Debug!Pauses /\ hitAt' \in Debug!Pauses /\ shown' \in Debug!Pauses
          /\ answered' \in Debug!Pauses /\ resumedBy' \in Debug!Pauses
    BY TypesAre
  <2>8. changes' \in 0 .. Edits /\ losses' \in 0 .. Losses
    BY TypesAre, Debug!DebugAssumption DEF Debug!DebugAssumption
  <2> QED BY <2>1, <2>2, <2>3, <2>4, <2>5, <2>6, <2>7, <2>8, TypesAre, StagesAre, EventsTyped
             DEF Typed, Debug!TypeOK
<1>2. Begun'
  BY TypesAre, StagesAre DEF Begun
<1>3. Debug!Frozen'
  BY TypesAre, StagesAre DEF Debug!Frozen, Begun
<1>4. Queued'
  BY TypesAre, StagesAre DEF Queued, Begun, Debug!Frozen
<1>5. Counted'
  BY TypesAre, StagesAre DEF Counted, Begun, Debug!Frozen, Queued, Over, Paused
<1>6. Numbered'
  BY TypesAre, StagesAre DEF Numbered, Begun, Over
<1> QED BY <1>1, <1>2, <1>3, <1>4, <1>5, <1>6

LEMMA ClearInv == ASSUME Debug!DebugAssumption, DebugIInv, Debug!Clear PROVE DebugIInv'
<1> USE DEF DebugIInv, Debug!Clear, Debug!thread, Debug!session, Debug!bridge, Debug!debugger, Debug!Proceeds,
       Debug!Cleared
<1>a. pos' = pos + 1 /\ pos < Len(Program) /\ Len(Program) \in Nat /\ tpc' = "running"
  BY LenIs, TypesAre DEF Typed
<1>1. Typed'
  <2>1. /\ stepMode' \in BOOLEAN /\ resume' \in BOOLEAN /\ halted' \in BOOLEAN /\ controller' \in BOOLEAN
        /\ getter' \in BOOLEAN /\ step' \in BOOLEAN /\ terminate' \in BOOLEAN /\ repeated' \in BOOLEAN
    BY DEF Typed, Debug!TypeOK
  <2>2. hits' \in [Debug!Frames -> SUBSET {e.line : e \in Debug!Lines}] /\ traced' \subseteq Debug!Frames
    BY TypesAre, AtIs DEF Typed
  <2>3. events' \in Seq(EventRecords)
    BY TypesAre DEF EventRecords
  <2>4. inbox' \in Seq(Debug!Pauses)
    BY TypesAre
  <2>5. pos' \in 0 .. Len(Program) /\ (tpc' \in {"tracing", "hit", "woken"} => pos' < Len(Program))
    BY <1>a, TypesAre
  <2>6. active' \subseteq Debug!Breakpoints /\ wanted' \subseteq Debug!Breakpoints
    BY TypesAre DEF Debug!Given
  <2>7. pause' \in Debug!Pauses /\ hitAt' \in Debug!Pauses /\ shown' \in Debug!Pauses
          /\ answered' \in Debug!Pauses /\ resumedBy' \in Debug!Pauses
    BY TypesAre
  <2>8. changes' \in 0 .. Edits /\ losses' \in 0 .. Losses
    BY TypesAre, Debug!DebugAssumption DEF Debug!DebugAssumption
  <2> QED BY <2>1, <2>2, <2>3, <2>4, <2>5, <2>6, <2>7, <2>8, TypesAre, StagesAre, EventsTyped
             DEF Typed, Debug!TypeOK
<1>2. Begun'
  BY TypesAre, StagesAre DEF Begun
<1>3. Debug!Frozen'
  BY TypesAre, StagesAre DEF Debug!Frozen, Begun
<1>4. Queued'
  BY TypesAre, StagesAre DEF Queued, Begun, Debug!Frozen
<1>5. Counted'
  BY TypesAre, StagesAre DEF Counted, Begun, Debug!Frozen, Queued, Over, Paused
<1>6. Numbered'
  BY TypesAre, StagesAre DEF Numbered, Begun, Over
<1> QED BY <1>1, <1>2, <1>3, <1>4, <1>5, <1>6

LEMMA EndInv == ASSUME Debug!DebugAssumption, DebugIInv, Debug!End PROVE DebugIInv'
<1> USE DEF DebugIInv, Debug!End, Debug!thread, Debug!session, Debug!bridge, Debug!debugger, Debug!Report
<1>a. PICK e \in Endings : events' = events \o Debug!Report(e)
  OBVIOUS
<1>b. events' = events \/ (events' = Append(events, [type |-> e]) /\ [type |-> e] \in EventRecords)
  <2>1. CASE e = "exit"
    BY <1>a, <2>1, TypesAre
  <2>2. CASE e # "exit"
    <3>1. e \in {"completed", "error"}
      BY <2>2 DEF Debug!DebugAssumption
    <3> QED BY <1>a, <2>2, <3>1, TypesAre DEF EventRecords
  <2> QED BY <2>1, <2>2
<1>c. events' \in Seq(EventRecords)
  BY <1>b, AppendIs, TypesAre
<1>1. Typed'
  <2>1. /\ stepMode' \in BOOLEAN /\ resume' \in BOOLEAN /\ halted' \in BOOLEAN /\ controller' \in BOOLEAN
        /\ getter' \in BOOLEAN /\ step' \in BOOLEAN /\ terminate' \in BOOLEAN /\ repeated' \in BOOLEAN
    BY DEF Typed, Debug!TypeOK
  <2>2. hits' \in [Debug!Frames -> SUBSET {l.line : l \in Debug!Lines}] /\ traced' \subseteq Debug!Frames
    BY TypesAre, AtIs DEF Typed
  <2>3. events' \in Seq(EventRecords)
    BY <1>c
  <2>4. inbox' \in Seq(Debug!Pauses)
    BY TypesAre
  <2>5. pos' \in 0 .. Len(Program) /\ (tpc' \in {"tracing", "hit", "woken"} => pos' < Len(Program))
    BY TypesAre, LenIs DEF Typed
  <2>6. active' \subseteq Debug!Breakpoints /\ wanted' \subseteq Debug!Breakpoints
    BY TypesAre DEF Debug!Given
  <2>7. pause' \in Debug!Pauses /\ hitAt' \in Debug!Pauses /\ shown' \in Debug!Pauses
          /\ answered' \in Debug!Pauses /\ resumedBy' \in Debug!Pauses
    BY TypesAre
  <2>8. changes' \in 0 .. Edits /\ losses' \in 0 .. Losses
    BY TypesAre, Debug!DebugAssumption DEF Debug!DebugAssumption
  <2> QED BY <2>1, <2>2, <2>3, <2>4, <2>5, <2>6, <2>7, <2>8, TypesAre, StagesAre, EventsTyped
             DEF Typed, Debug!TypeOK
<1>2. Begun'
  BY TypesAre, StagesAre DEF Begun
<1>3. Debug!Frozen'
  BY <1>b, TypesAre, StagesAre DEF Debug!Frozen, Begun
<1>4. Queued'
  <2> SUFFICES ASSUME spc = "draining"
               PROVE  ~resume /\ \A i \in DOMAIN events' : events'[i].type # "breakpoint"
    BY DEF Queued
  <2>1. ~resume /\ \A i \in DOMAIN events : events[i].type # "breakpoint"
    BY DEF Queued
  <2>2. [type |-> e].type # "breakpoint"
    BY DEF Debug!DebugAssumption
  <2>3. ASSUME events' = Append(events, [type |-> e]), NEW i \in DOMAIN events'
        PROVE  events'[i].type # "breakpoint"
    <3>1. \/ i \in DOMAIN events /\ events'[i] = events[i]
          \/ events'[i] = [type |-> e]
      BY <2>3, TypesAre
    <3> QED BY <2>1, <2>2, <3>1
  <2> QED BY <1>b, <2>1, <2>3
<1>5. Counted'
  BY TypesAre, StagesAre DEF Counted, Begun, Debug!Frozen, Queued, Over, Paused
<1>6. Numbered'
  BY TypesAre, StagesAre DEF Numbered, Begun, Over
<1> QED BY <1>1, <1>2, <1>3, <1>4, <1>5, <1>6

LEMMA StartStreamInv == ASSUME Debug!DebugAssumption, DebugIInv, Debug!StartStream PROVE DebugIInv'
<1> USE DEF DebugIInv, Debug!StartStream, Debug!thread, Debug!session, Debug!bridge, Debug!debugger
<1>1. Typed'
  <2>1. /\ stepMode' \in BOOLEAN /\ resume' \in BOOLEAN /\ halted' \in BOOLEAN /\ controller' \in BOOLEAN
        /\ getter' \in BOOLEAN /\ step' \in BOOLEAN /\ terminate' \in BOOLEAN /\ repeated' \in BOOLEAN
    BY DEF Typed, Debug!TypeOK
  <2>2. hits' \in [Debug!Frames -> SUBSET {e.line : e \in Debug!Lines}] /\ traced' \subseteq Debug!Frames
    BY TypesAre, AtIs DEF Typed
  <2>3. events' \in Seq(EventRecords)
    BY TypesAre DEF EventRecords
  <2>4. inbox' \in Seq(Debug!Pauses)
    BY TypesAre
  <2>5. pos' \in 0 .. Len(Program) /\ (tpc' \in {"tracing", "hit", "woken"} => pos' < Len(Program))
    BY TypesAre, LenIs DEF Typed
  <2>6. active' \subseteq Debug!Breakpoints /\ wanted' \subseteq Debug!Breakpoints
    BY TypesAre DEF Debug!Given
  <2>7. pause' \in Debug!Pauses /\ hitAt' \in Debug!Pauses /\ shown' \in Debug!Pauses
          /\ answered' \in Debug!Pauses /\ resumedBy' \in Debug!Pauses
    BY TypesAre
  <2>8. changes' \in 0 .. Edits /\ losses' \in 0 .. Losses
    BY TypesAre, Debug!DebugAssumption DEF Debug!DebugAssumption
  <2> QED BY <2>1, <2>2, <2>3, <2>4, <2>5, <2>6, <2>7, <2>8, TypesAre, StagesAre, EventsTyped
             DEF Typed, Debug!TypeOK
<1>2. Begun'
  BY TypesAre, StagesAre DEF Begun
<1>3. Debug!Frozen'
  BY TypesAre, StagesAre DEF Debug!Frozen, Begun
<1>4. Queued'
  BY TypesAre, StagesAre DEF Queued, Begun, Debug!Frozen
<1>5. Counted'
  BY TypesAre, StagesAre DEF Counted, Begun, Debug!Frozen, Queued, Over, Paused
<1>6. Numbered'
  BY TypesAre, StagesAre DEF Numbered, Begun, Over
<1> QED BY <1>1, <1>2, <1>3, <1>4, <1>5, <1>6

LEMMA UpdateBreakpointsInv == ASSUME Debug!DebugAssumption, DebugIInv, Debug!UpdateBreakpoints PROVE DebugIInv'
<1> USE DEF DebugIInv, Debug!UpdateBreakpoints, Debug!thread, Debug!session, Debug!bridge, Debug!debugger
<1>1. Typed'
  <2>1. /\ stepMode' \in BOOLEAN /\ resume' \in BOOLEAN /\ halted' \in BOOLEAN /\ controller' \in BOOLEAN
        /\ getter' \in BOOLEAN /\ step' \in BOOLEAN /\ terminate' \in BOOLEAN /\ repeated' \in BOOLEAN
    BY DEF Typed, Debug!TypeOK
  <2>2. hits' \in [Debug!Frames -> SUBSET {e.line : e \in Debug!Lines}] /\ traced' \subseteq Debug!Frames
    BY TypesAre, AtIs DEF Typed
  <2>3. events' \in Seq(EventRecords)
    BY TypesAre DEF EventRecords
  <2>4. inbox' \in Seq(Debug!Pauses)
    BY TypesAre
  <2>5. pos' \in 0 .. Len(Program) /\ (tpc' \in {"tracing", "hit", "woken"} => pos' < Len(Program))
    BY TypesAre, LenIs DEF Typed
  <2>6. active' \subseteq Debug!Breakpoints /\ wanted' \subseteq Debug!Breakpoints
    BY TypesAre DEF Debug!Given
  <2>7. pause' \in Debug!Pauses /\ hitAt' \in Debug!Pauses /\ shown' \in Debug!Pauses
          /\ answered' \in Debug!Pauses /\ resumedBy' \in Debug!Pauses
    BY TypesAre
  <2>8. changes' \in 0 .. Edits /\ losses' \in 0 .. Losses
    BY TypesAre, Debug!DebugAssumption DEF Debug!DebugAssumption
  <2> QED BY <2>1, <2>2, <2>3, <2>4, <2>5, <2>6, <2>7, <2>8, TypesAre, StagesAre, EventsTyped
             DEF Typed, Debug!TypeOK
<1>2. Begun'
  BY TypesAre, StagesAre DEF Begun
<1>3. Debug!Frozen'
  BY TypesAre, StagesAre DEF Debug!Frozen, Begun
<1>4. Queued'
  BY TypesAre, StagesAre DEF Queued, Begun, Debug!Frozen
<1>5. Counted'
  BY TypesAre, StagesAre DEF Counted, Begun, Debug!Frozen, Queued, Over, Paused
<1>6. Numbered'
  BY TypesAre, StagesAre DEF Numbered, Begun, Over
<1> QED BY <1>1, <1>2, <1>3, <1>4, <1>5, <1>6

LEMMA ResumeInv == ASSUME Debug!DebugAssumption, DebugIInv, Debug!Resume PROVE DebugIInv'
<1> USE DEF DebugIInv, Debug!Resume, Debug!thread, Debug!session, Debug!bridge, Debug!debugger
<1>1. Typed'
  <2>1. /\ stepMode' \in BOOLEAN /\ resume' \in BOOLEAN /\ halted' \in BOOLEAN /\ controller' \in BOOLEAN
        /\ getter' \in BOOLEAN /\ step' \in BOOLEAN /\ terminate' \in BOOLEAN /\ repeated' \in BOOLEAN
    BY DEF Typed, Debug!TypeOK
  <2>2. hits' \in [Debug!Frames -> SUBSET {e.line : e \in Debug!Lines}] /\ traced' \subseteq Debug!Frames
    BY TypesAre, AtIs DEF Typed
  <2>3. events' \in Seq(EventRecords)
    BY TypesAre DEF EventRecords
  <2>4. inbox' \in Seq(Debug!Pauses)
    BY TypesAre
  <2>5. pos' \in 0 .. Len(Program) /\ (tpc' \in {"tracing", "hit", "woken"} => pos' < Len(Program))
    BY TypesAre, LenIs DEF Typed
  <2>6. active' \subseteq Debug!Breakpoints /\ wanted' \subseteq Debug!Breakpoints
    BY TypesAre DEF Debug!Given
  <2>7. pause' \in Debug!Pauses /\ hitAt' \in Debug!Pauses /\ shown' \in Debug!Pauses
          /\ answered' \in Debug!Pauses /\ resumedBy' \in Debug!Pauses
    BY TypesAre
  <2>8. changes' \in 0 .. Edits /\ losses' \in 0 .. Losses
    BY TypesAre, Debug!DebugAssumption DEF Debug!DebugAssumption
  <2> QED BY <2>1, <2>2, <2>3, <2>4, <2>5, <2>6, <2>7, <2>8, TypesAre, StagesAre, EventsTyped
             DEF Typed, Debug!TypeOK
<1>2. Begun'
  BY TypesAre, StagesAre DEF Begun
<1>3. Debug!Frozen'
  BY TypesAre, StagesAre DEF Debug!Frozen, Begun
<1>4. Queued'
  BY TypesAre, StagesAre DEF Queued, Begun, Debug!Frozen
<1>5. Counted'
  BY TypesAre, StagesAre DEF Counted, Begun, Debug!Frozen, Queued, Over, Paused
<1>6. Numbered'
  BY TypesAre, StagesAre DEF Numbered, Begun, Over
<1> QED BY <1>1, <1>2, <1>3, <1>4, <1>5, <1>6

LEMMA DrainStateInv == ASSUME Debug!DebugAssumption, DebugIInv, Debug!DrainState PROVE DebugIInv'
<1> USE DEF DebugIInv, Debug!DrainState, Debug!thread, Debug!session, Debug!bridge, Debug!debugger
<1>1. Typed'
  <2>1. /\ stepMode' \in BOOLEAN /\ resume' \in BOOLEAN /\ halted' \in BOOLEAN /\ controller' \in BOOLEAN
        /\ getter' \in BOOLEAN /\ step' \in BOOLEAN /\ terminate' \in BOOLEAN /\ repeated' \in BOOLEAN
    BY DEF Typed, Debug!TypeOK
  <2>2. hits' \in [Debug!Frames -> SUBSET {e.line : e \in Debug!Lines}] /\ traced' \subseteq Debug!Frames
    BY TypesAre, AtIs DEF Typed
  <2>3. events' \in Seq(EventRecords)
    BY TypesAre DEF EventRecords
  <2>4. inbox' \in Seq(Debug!Pauses)
    BY TypesAre
  <2>5. pos' \in 0 .. Len(Program) /\ (tpc' \in {"tracing", "hit", "woken"} => pos' < Len(Program))
    BY TypesAre, LenIs DEF Typed
  <2>6. active' \subseteq Debug!Breakpoints /\ wanted' \subseteq Debug!Breakpoints
    BY TypesAre DEF Debug!Given
  <2>7. pause' \in Debug!Pauses /\ hitAt' \in Debug!Pauses /\ shown' \in Debug!Pauses
          /\ answered' \in Debug!Pauses /\ resumedBy' \in Debug!Pauses
    BY TypesAre
  <2>8. changes' \in 0 .. Edits /\ losses' \in 0 .. Losses
    BY TypesAre, Debug!DebugAssumption DEF Debug!DebugAssumption
  <2> QED BY <2>1, <2>2, <2>3, <2>4, <2>5, <2>6, <2>7, <2>8, TypesAre, StagesAre, EventsTyped
             DEF Typed, Debug!TypeOK
<1>2. Begun'
  BY TypesAre, StagesAre DEF Begun
<1>3. Debug!Frozen'
  BY TypesAre, StagesAre DEF Debug!Frozen, Begun
<1>4. Queued'
  BY TypesAre, StagesAre DEF Queued, Begun, Debug!Frozen
<1>5. Counted'
  BY TypesAre, StagesAre DEF Counted, Begun, Debug!Frozen, Queued, Over, Paused
<1>6. Numbered'
  BY TypesAre, StagesAre DEF Numbered, Begun, Over
<1> QED BY <1>1, <1>2, <1>3, <1>4, <1>5, <1>6

LEMMA DrainBreakpointInv == ASSUME Debug!DebugAssumption, DebugIInv, Debug!DrainBreakpoint PROVE DebugIInv'
<1> USE DEF DebugIInv, Debug!DrainBreakpoint, Debug!thread, Debug!session, Debug!bridge, Debug!debugger
<1>a. /\ Head(events) = events[1] /\ 1 \in DOMAIN events /\ Len(events) \in Nat
      /\ Len(events) = 1 => Tail(events) = <<>>
  BY HeadIs, TypesAre
<1>b. /\ 1 = Len(events) /\ tpc = "hit" /\ ~resume /\ hitAt' = pos /\ events' = <<>> /\ pause <= pos
      /\ pos < Len(Program) /\ Len(Program) \in Nat /\ pause' = pause + 1
  BY <1>a, AtIs DEF Queued, Counted, Over, Paused, Typed
<1>1. Typed'
  <2>1. /\ stepMode' \in BOOLEAN /\ resume' \in BOOLEAN /\ halted' \in BOOLEAN /\ controller' \in BOOLEAN
        /\ getter' \in BOOLEAN /\ step' \in BOOLEAN /\ terminate' \in BOOLEAN /\ repeated' \in BOOLEAN
    BY DEF Typed, Debug!TypeOK
  <2>2. hits' \in [Debug!Frames -> SUBSET {e.line : e \in Debug!Lines}] /\ traced' \subseteq Debug!Frames
    BY TypesAre, AtIs DEF Typed
  <2>3. events' \in Seq(EventRecords)
    BY TypesAre DEF EventRecords
  <2>4. inbox' \in Seq(Debug!Pauses)
    BY TypesAre
  <2>5. pos' \in 0 .. Len(Program) /\ (tpc' \in {"tracing", "hit", "woken"} => pos' < Len(Program))
    BY TypesAre, LenIs DEF Typed
  <2>6. active' \subseteq Debug!Breakpoints /\ wanted' \subseteq Debug!Breakpoints
    BY TypesAre DEF Debug!Given
  <2>7. pause' \in Debug!Pauses /\ hitAt' \in Debug!Pauses /\ shown' \in Debug!Pauses
          /\ answered' \in Debug!Pauses /\ resumedBy' \in Debug!Pauses
    BY <1>b, TypesAre
  <2>8. changes' \in 0 .. Edits /\ losses' \in 0 .. Losses
    BY TypesAre, Debug!DebugAssumption DEF Debug!DebugAssumption
  <2> QED BY <2>1, <2>2, <2>3, <2>4, <2>5, <2>6, <2>7, <2>8, TypesAre, StagesAre, EventsTyped
             DEF Typed, Debug!TypeOK
<1>2. Begun'
  BY TypesAre, StagesAre DEF Begun
<1>3. Debug!Frozen'
  BY <1>b DEF Debug!Frozen
<1>4. Queued'
  BY TypesAre, StagesAre DEF Queued, Begun, Debug!Frozen
<1>5. Counted'
  BY <1>b, TypesAre DEF Counted, Paused, Over
<1>6. Numbered'
  BY TypesAre, StagesAre DEF Numbered, Begun, Over
<1> QED BY <1>1, <1>2, <1>3, <1>4, <1>5, <1>6

LEMMA DrainTerminalInv == ASSUME Debug!DebugAssumption, DebugIInv, Debug!DrainTerminal PROVE DebugIInv'
<1> USE DEF DebugIInv, Debug!DrainTerminal, Debug!thread, Debug!session, Debug!bridge, Debug!debugger
<1>1. Typed'
  <2>1. /\ stepMode' \in BOOLEAN /\ resume' \in BOOLEAN /\ halted' \in BOOLEAN /\ controller' \in BOOLEAN
        /\ getter' \in BOOLEAN /\ step' \in BOOLEAN /\ terminate' \in BOOLEAN /\ repeated' \in BOOLEAN
    BY DEF Typed, Debug!TypeOK
  <2>2. hits' \in [Debug!Frames -> SUBSET {e.line : e \in Debug!Lines}] /\ traced' \subseteq Debug!Frames
    BY TypesAre, AtIs DEF Typed
  <2>3. events' \in Seq(EventRecords)
    BY TypesAre DEF EventRecords
  <2>4. inbox' \in Seq(Debug!Pauses)
    BY TypesAre
  <2>5. pos' \in 0 .. Len(Program) /\ (tpc' \in {"tracing", "hit", "woken"} => pos' < Len(Program))
    BY TypesAre, LenIs DEF Typed
  <2>6. active' \subseteq Debug!Breakpoints /\ wanted' \subseteq Debug!Breakpoints
    BY TypesAre DEF Debug!Given
  <2>7. pause' \in Debug!Pauses /\ hitAt' \in Debug!Pauses /\ shown' \in Debug!Pauses
          /\ answered' \in Debug!Pauses /\ resumedBy' \in Debug!Pauses
    BY TypesAre
  <2>8. changes' \in 0 .. Edits /\ losses' \in 0 .. Losses
    BY TypesAre, Debug!DebugAssumption DEF Debug!DebugAssumption
  <2> QED BY <2>1, <2>2, <2>3, <2>4, <2>5, <2>6, <2>7, <2>8, TypesAre, StagesAre, EventsTyped
             DEF Typed, Debug!TypeOK
<1>2. Begun'
  BY TypesAre, StagesAre DEF Begun
<1>3. Debug!Frozen'
  BY TypesAre, StagesAre DEF Debug!Frozen, Begun
<1>4. Queued'
  BY TypesAre, StagesAre DEF Queued, Begun, Debug!Frozen
<1>5. Counted'
  BY TypesAre, StagesAre DEF Counted, Begun, Debug!Frozen, Queued, Over, Paused
<1>6. Numbered'
  BY TypesAre, StagesAre DEF Numbered, Begun, Over
<1> QED BY <1>1, <1>2, <1>3, <1>4, <1>5, <1>6

LEMMA EmitBreakpointInv == ASSUME Debug!DebugAssumption, DebugIInv, Debug!EmitBreakpoint PROVE DebugIInv'
<1> USE DEF DebugIInv, Debug!EmitBreakpoint, Debug!thread, Debug!session, Debug!bridge, Debug!debugger
<1>1. Typed'
  <2>1. /\ stepMode' \in BOOLEAN /\ resume' \in BOOLEAN /\ halted' \in BOOLEAN /\ controller' \in BOOLEAN
        /\ getter' \in BOOLEAN /\ step' \in BOOLEAN /\ terminate' \in BOOLEAN /\ repeated' \in BOOLEAN
    BY DEF Typed, Debug!TypeOK
  <2>2. hits' \in [Debug!Frames -> SUBSET {e.line : e \in Debug!Lines}] /\ traced' \subseteq Debug!Frames
    BY TypesAre, AtIs DEF Typed
  <2>3. events' \in Seq(EventRecords)
    BY TypesAre DEF EventRecords
  <2>4. inbox' \in Seq(Debug!Pauses)
    BY TypesAre
  <2>5. pos' \in 0 .. Len(Program) /\ (tpc' \in {"tracing", "hit", "woken"} => pos' < Len(Program))
    BY TypesAre, LenIs DEF Typed
  <2>6. active' \subseteq Debug!Breakpoints /\ wanted' \subseteq Debug!Breakpoints
    BY TypesAre DEF Debug!Given
  <2>7. pause' \in Debug!Pauses /\ hitAt' \in Debug!Pauses /\ shown' \in Debug!Pauses
          /\ answered' \in Debug!Pauses /\ resumedBy' \in Debug!Pauses
    BY TypesAre
  <2>8. changes' \in 0 .. Edits /\ losses' \in 0 .. Losses
    BY TypesAre, Debug!DebugAssumption DEF Debug!DebugAssumption
  <2> QED BY <2>1, <2>2, <2>3, <2>4, <2>5, <2>6, <2>7, <2>8, TypesAre, StagesAre, EventsTyped
             DEF Typed, Debug!TypeOK
<1>2. Begun'
  BY TypesAre, StagesAre DEF Begun
<1>3. Debug!Frozen'
  BY TypesAre, StagesAre DEF Debug!Frozen, Begun
<1>4. Queued'
  BY TypesAre, StagesAre DEF Queued, Begun, Debug!Frozen
<1>5. Counted'
  BY TypesAre, StagesAre DEF Counted, Begun, Debug!Frozen, Queued, Over, Paused
<1>6. Numbered'
  BY TypesAre, StagesAre DEF Numbered, Begun, Over
<1> QED BY <1>1, <1>2, <1>3, <1>4, <1>5, <1>6

LEMMA WaitForResumeInv == ASSUME Debug!DebugAssumption, DebugIInv, Debug!WaitForResume PROVE DebugIInv'
<1> USE DEF DebugIInv, Debug!WaitForResume, Debug!thread, Debug!session, Debug!bridge, Debug!debugger,
       Debug!NewEvent, Debug!KeptQuit
<1>1. Typed'
  <2>1. /\ stepMode' \in BOOLEAN /\ resume' \in BOOLEAN /\ halted' \in BOOLEAN /\ controller' \in BOOLEAN
        /\ getter' \in BOOLEAN /\ step' \in BOOLEAN /\ terminate' \in BOOLEAN /\ repeated' \in BOOLEAN
    BY DEF Typed, Debug!TypeOK
  <2>2. hits' \in [Debug!Frames -> SUBSET {e.line : e \in Debug!Lines}] /\ traced' \subseteq Debug!Frames
    BY TypesAre, AtIs DEF Typed
  <2>3. events' \in Seq(EventRecords)
    BY TypesAre DEF EventRecords
  <2>4. inbox' \in Seq(Debug!Pauses)
    BY TypesAre
  <2>5. pos' \in 0 .. Len(Program) /\ (tpc' \in {"tracing", "hit", "woken"} => pos' < Len(Program))
    BY TypesAre, LenIs DEF Typed
  <2>6. active' \subseteq Debug!Breakpoints /\ wanted' \subseteq Debug!Breakpoints
    BY TypesAre DEF Debug!Given
  <2>7. pause' \in Debug!Pauses /\ hitAt' \in Debug!Pauses /\ shown' \in Debug!Pauses
          /\ answered' \in Debug!Pauses /\ resumedBy' \in Debug!Pauses
    BY TypesAre
  <2>8. changes' \in 0 .. Edits /\ losses' \in 0 .. Losses
    BY TypesAre, Debug!DebugAssumption DEF Debug!DebugAssumption
  <2> QED BY <2>1, <2>2, <2>3, <2>4, <2>5, <2>6, <2>7, <2>8, TypesAre, StagesAre, EventsTyped
             DEF Typed, Debug!TypeOK
<1>2. Begun'
  BY TypesAre, StagesAre DEF Begun
<1>3. Debug!Frozen'
  BY TypesAre, StagesAre DEF Debug!Frozen, Begun
<1>4. Queued'
  BY TypesAre, StagesAre DEF Queued, Begun, Debug!Frozen
<1>5. Counted'
  BY TypesAre, StagesAre DEF Counted, Begun, Debug!Frozen, Queued, Over, Paused
<1>6. Numbered'
  BY TypesAre, StagesAre DEF Numbered, Begun, Over
<1> QED BY <1>1, <1>2, <1>3, <1>4, <1>5, <1>6

LEMMA EndWaitInv == ASSUME Debug!DebugAssumption, DebugIInv, Debug!EndWait PROVE DebugIInv'
<1> USE DEF DebugIInv, Debug!EndWait, Debug!thread, Debug!session, Debug!bridge, Debug!debugger
<1>1. Typed'
  <2>1. /\ stepMode' \in BOOLEAN /\ resume' \in BOOLEAN /\ halted' \in BOOLEAN /\ controller' \in BOOLEAN
        /\ getter' \in BOOLEAN /\ step' \in BOOLEAN /\ terminate' \in BOOLEAN /\ repeated' \in BOOLEAN
    BY DEF Typed, Debug!TypeOK
  <2>2. hits' \in [Debug!Frames -> SUBSET {e.line : e \in Debug!Lines}] /\ traced' \subseteq Debug!Frames
    BY TypesAre, AtIs DEF Typed
  <2>3. events' \in Seq(EventRecords)
    BY TypesAre DEF EventRecords
  <2>4. inbox' \in Seq(Debug!Pauses)
    BY TypesAre
  <2>5. pos' \in 0 .. Len(Program) /\ (tpc' \in {"tracing", "hit", "woken"} => pos' < Len(Program))
    BY TypesAre, LenIs DEF Typed
  <2>6. active' \subseteq Debug!Breakpoints /\ wanted' \subseteq Debug!Breakpoints
    BY TypesAre DEF Debug!Given
  <2>7. pause' \in Debug!Pauses /\ hitAt' \in Debug!Pauses /\ shown' \in Debug!Pauses
          /\ answered' \in Debug!Pauses /\ resumedBy' \in Debug!Pauses
    BY TypesAre
  <2>8. changes' \in 0 .. Edits /\ losses' \in 0 .. Losses
    BY TypesAre, Debug!DebugAssumption DEF Debug!DebugAssumption
  <2> QED BY <2>1, <2>2, <2>3, <2>4, <2>5, <2>6, <2>7, <2>8, TypesAre, StagesAre, EventsTyped
             DEF Typed, Debug!TypeOK
<1>2. Begun'
  BY TypesAre, StagesAre DEF Begun
<1>3. Debug!Frozen'
  BY TypesAre, StagesAre DEF Debug!Frozen, Begun
<1>4. Queued'
  BY TypesAre, StagesAre DEF Queued, Begun, Debug!Frozen
<1>5. Counted'
  BY TypesAre, StagesAre DEF Counted, Begun, Debug!Frozen, Queued, Over, Paused
<1>6. Numbered'
  BY TypesAre, StagesAre DEF Numbered, Begun, Over
<1> QED BY <1>1, <1>2, <1>3, <1>4, <1>5, <1>6

LEMMA DisposeInv == ASSUME Debug!DebugAssumption, DebugIInv, Debug!Dispose PROVE DebugIInv'
<1> USE DEF DebugIInv, Debug!Dispose, Debug!thread, Debug!session, Debug!bridge, Debug!debugger
<1>1. Typed'
  <2>1. /\ stepMode' \in BOOLEAN /\ resume' \in BOOLEAN /\ halted' \in BOOLEAN /\ controller' \in BOOLEAN
        /\ getter' \in BOOLEAN /\ step' \in BOOLEAN /\ terminate' \in BOOLEAN /\ repeated' \in BOOLEAN
    BY DEF Typed, Debug!TypeOK
  <2>2. hits' \in [Debug!Frames -> SUBSET {e.line : e \in Debug!Lines}] /\ traced' \subseteq Debug!Frames
    BY TypesAre, AtIs DEF Typed
  <2>3. events' \in Seq(EventRecords)
    BY TypesAre DEF EventRecords
  <2>4. inbox' \in Seq(Debug!Pauses)
    BY TypesAre
  <2>5. pos' \in 0 .. Len(Program) /\ (tpc' \in {"tracing", "hit", "woken"} => pos' < Len(Program))
    BY TypesAre, LenIs DEF Typed
  <2>6. active' \subseteq Debug!Breakpoints /\ wanted' \subseteq Debug!Breakpoints
    BY TypesAre DEF Debug!Given
  <2>7. pause' \in Debug!Pauses /\ hitAt' \in Debug!Pauses /\ shown' \in Debug!Pauses
          /\ answered' \in Debug!Pauses /\ resumedBy' \in Debug!Pauses
    BY TypesAre
  <2>8. changes' \in 0 .. Edits /\ losses' \in 0 .. Losses
    BY TypesAre, Debug!DebugAssumption DEF Debug!DebugAssumption
  <2> QED BY <2>1, <2>2, <2>3, <2>4, <2>5, <2>6, <2>7, <2>8, TypesAre, StagesAre, EventsTyped
             DEF Typed, Debug!TypeOK
<1>2. Begun'
  BY TypesAre, StagesAre DEF Begun
<1>3. Debug!Frozen'
  BY TypesAre, StagesAre DEF Debug!Frozen, Begun
<1>4. Queued'
  BY TypesAre, StagesAre DEF Queued, Begun, Debug!Frozen
<1>5. Counted'
  BY TypesAre, StagesAre DEF Counted, Begun, Debug!Frozen, Queued, Over, Paused
<1>6. Numbered'
  BY TypesAre, StagesAre DEF Numbered, Begun, Over
<1> QED BY <1>1, <1>2, <1>3, <1>4, <1>5, <1>6

LEMMA SetResumeInv == ASSUME Debug!DebugAssumption, DebugIInv, Debug!SetResume PROVE DebugIInv'
<1> USE DEF DebugIInv, Debug!SetResume, Debug!thread, Debug!session, Debug!bridge, Debug!debugger,
       Debug!Unblocked
<1>1. Typed'
  <2>1. /\ stepMode' \in BOOLEAN /\ resume' \in BOOLEAN /\ halted' \in BOOLEAN /\ controller' \in BOOLEAN
        /\ getter' \in BOOLEAN /\ step' \in BOOLEAN /\ terminate' \in BOOLEAN /\ repeated' \in BOOLEAN
    BY DEF Typed, Debug!TypeOK
  <2>2. hits' \in [Debug!Frames -> SUBSET {e.line : e \in Debug!Lines}] /\ traced' \subseteq Debug!Frames
    BY TypesAre, AtIs DEF Typed
  <2>3. events' \in Seq(EventRecords)
    BY TypesAre DEF EventRecords
  <2>4. inbox' \in Seq(Debug!Pauses)
    BY TypesAre
  <2>5. pos' \in 0 .. Len(Program) /\ (tpc' \in {"tracing", "hit", "woken"} => pos' < Len(Program))
    BY TypesAre, LenIs DEF Typed
  <2>6. active' \subseteq Debug!Breakpoints /\ wanted' \subseteq Debug!Breakpoints
    BY TypesAre DEF Debug!Given
  <2>7. pause' \in Debug!Pauses /\ hitAt' \in Debug!Pauses /\ shown' \in Debug!Pauses
          /\ answered' \in Debug!Pauses /\ resumedBy' \in Debug!Pauses
    BY TypesAre
  <2>8. changes' \in 0 .. Edits /\ losses' \in 0 .. Losses
    BY TypesAre, Debug!DebugAssumption DEF Debug!DebugAssumption
  <2> QED BY <2>1, <2>2, <2>3, <2>4, <2>5, <2>6, <2>7, <2>8, TypesAre, StagesAre, EventsTyped
             DEF Typed, Debug!TypeOK
<1>2. Begun'
  BY TypesAre, StagesAre DEF Begun
<1>3. Debug!Frozen'
  BY TypesAre, StagesAre DEF Debug!Frozen, Begun
<1>4. Queued'
  BY TypesAre, StagesAre DEF Queued, Begun, Debug!Frozen
<1>5. Counted'
  BY TypesAre, StagesAre DEF Counted, Begun, Debug!Frozen, Queued, Over, Paused
<1>6. Numbered'
  BY TypesAre, StagesAre DEF Numbered, Begun, Over
<1> QED BY <1>1, <1>2, <1>3, <1>4, <1>5, <1>6

LEMMA JoinInv == ASSUME Debug!DebugAssumption, DebugIInv, Debug!Join PROVE DebugIInv'
<1> USE DEF DebugIInv, Debug!Join, Debug!thread, Debug!session, Debug!bridge, Debug!debugger
<1>1. Typed'
  <2>1. /\ stepMode' \in BOOLEAN /\ resume' \in BOOLEAN /\ halted' \in BOOLEAN /\ controller' \in BOOLEAN
        /\ getter' \in BOOLEAN /\ step' \in BOOLEAN /\ terminate' \in BOOLEAN /\ repeated' \in BOOLEAN
    BY DEF Typed, Debug!TypeOK
  <2>2. hits' \in [Debug!Frames -> SUBSET {e.line : e \in Debug!Lines}] /\ traced' \subseteq Debug!Frames
    BY TypesAre, AtIs DEF Typed
  <2>3. events' \in Seq(EventRecords)
    BY TypesAre DEF EventRecords
  <2>4. inbox' \in Seq(Debug!Pauses)
    BY TypesAre
  <2>5. pos' \in 0 .. Len(Program) /\ (tpc' \in {"tracing", "hit", "woken"} => pos' < Len(Program))
    BY TypesAre, LenIs DEF Typed
  <2>6. active' \subseteq Debug!Breakpoints /\ wanted' \subseteq Debug!Breakpoints
    BY TypesAre DEF Debug!Given
  <2>7. pause' \in Debug!Pauses /\ hitAt' \in Debug!Pauses /\ shown' \in Debug!Pauses
          /\ answered' \in Debug!Pauses /\ resumedBy' \in Debug!Pauses
    BY TypesAre
  <2>8. changes' \in 0 .. Edits /\ losses' \in 0 .. Losses
    BY TypesAre, Debug!DebugAssumption DEF Debug!DebugAssumption
  <2> QED BY <2>1, <2>2, <2>3, <2>4, <2>5, <2>6, <2>7, <2>8, TypesAre, StagesAre, EventsTyped
             DEF Typed, Debug!TypeOK
<1>2. Begun'
  BY TypesAre, StagesAre DEF Begun
<1>3. Debug!Frozen'
  BY TypesAre, StagesAre DEF Debug!Frozen, Begun
<1>4. Queued'
  BY TypesAre, StagesAre DEF Queued, Begun, Debug!Frozen
<1>5. Counted'
  BY TypesAre, StagesAre DEF Counted, Begun, Debug!Frozen, Queued, Over, Paused
<1>6. Numbered'
  BY TypesAre, StagesAre DEF Numbered, Begun, Over
<1> QED BY <1>1, <1>2, <1>3, <1>4, <1>5, <1>6

LEMMA CancelInv == ASSUME Debug!DebugAssumption, DebugIInv, Debug!Cancel PROVE DebugIInv'
<1> USE DEF DebugIInv, Debug!Cancel, Debug!thread, Debug!session, Debug!bridge, Debug!debugger
<1>1. Typed'
  <2>1. /\ stepMode' \in BOOLEAN /\ resume' \in BOOLEAN /\ halted' \in BOOLEAN /\ controller' \in BOOLEAN
        /\ getter' \in BOOLEAN /\ step' \in BOOLEAN /\ terminate' \in BOOLEAN /\ repeated' \in BOOLEAN
    BY DEF Typed, Debug!TypeOK
  <2>2. hits' \in [Debug!Frames -> SUBSET {e.line : e \in Debug!Lines}] /\ traced' \subseteq Debug!Frames
    BY TypesAre, AtIs DEF Typed
  <2>3. events' \in Seq(EventRecords)
    BY TypesAre DEF EventRecords
  <2>4. inbox' \in Seq(Debug!Pauses)
    BY TypesAre
  <2>5. pos' \in 0 .. Len(Program) /\ (tpc' \in {"tracing", "hit", "woken"} => pos' < Len(Program))
    BY TypesAre, LenIs DEF Typed
  <2>6. active' \subseteq Debug!Breakpoints /\ wanted' \subseteq Debug!Breakpoints
    BY TypesAre DEF Debug!Given
  <2>7. pause' \in Debug!Pauses /\ hitAt' \in Debug!Pauses /\ shown' \in Debug!Pauses
          /\ answered' \in Debug!Pauses /\ resumedBy' \in Debug!Pauses
    BY TypesAre
  <2>8. changes' \in 0 .. Edits /\ losses' \in 0 .. Losses
    BY TypesAre, Debug!DebugAssumption DEF Debug!DebugAssumption
  <2> QED BY <2>1, <2>2, <2>3, <2>4, <2>5, <2>6, <2>7, <2>8, TypesAre, StagesAre, EventsTyped
             DEF Typed, Debug!TypeOK
<1>2. Begun'
  BY TypesAre, StagesAre DEF Begun
<1>3. Debug!Frozen'
  BY TypesAre, StagesAre DEF Debug!Frozen, Begun
<1>4. Queued'
  BY TypesAre, StagesAre DEF Queued, Begun, Debug!Frozen
<1>5. Counted'
  BY TypesAre, StagesAre DEF Counted, Begun, Debug!Frozen, Queued, Over, Paused
<1>6. Numbered'
  BY TypesAre, StagesAre DEF Numbered, Begun, Over
<1> QED BY <1>1, <1>2, <1>3, <1>4, <1>5, <1>6

LEMMA OrphanGetsInv == ASSUME Debug!DebugAssumption, DebugIInv, Debug!OrphanGets PROVE DebugIInv'
<1> USE DEF DebugIInv, Debug!OrphanGets, Debug!thread, Debug!session, Debug!bridge, Debug!debugger
<1>1. Typed'
  <2>1. /\ stepMode' \in BOOLEAN /\ resume' \in BOOLEAN /\ halted' \in BOOLEAN /\ controller' \in BOOLEAN
        /\ getter' \in BOOLEAN /\ step' \in BOOLEAN /\ terminate' \in BOOLEAN /\ repeated' \in BOOLEAN
    BY DEF Typed, Debug!TypeOK
  <2>2. hits' \in [Debug!Frames -> SUBSET {e.line : e \in Debug!Lines}] /\ traced' \subseteq Debug!Frames
    BY TypesAre, AtIs DEF Typed
  <2>3. events' \in Seq(EventRecords)
    BY TypesAre DEF EventRecords
  <2>4. inbox' \in Seq(Debug!Pauses)
    BY TypesAre
  <2>5. pos' \in 0 .. Len(Program) /\ (tpc' \in {"tracing", "hit", "woken"} => pos' < Len(Program))
    BY TypesAre, LenIs DEF Typed
  <2>6. active' \subseteq Debug!Breakpoints /\ wanted' \subseteq Debug!Breakpoints
    BY TypesAre DEF Debug!Given
  <2>7. pause' \in Debug!Pauses /\ hitAt' \in Debug!Pauses /\ shown' \in Debug!Pauses
          /\ answered' \in Debug!Pauses /\ resumedBy' \in Debug!Pauses
    BY TypesAre
  <2>8. changes' \in 0 .. Edits /\ losses' \in 0 .. Losses
    BY TypesAre, Debug!DebugAssumption DEF Debug!DebugAssumption
  <2> QED BY <2>1, <2>2, <2>3, <2>4, <2>5, <2>6, <2>7, <2>8, TypesAre, StagesAre, EventsTyped
             DEF Typed, Debug!TypeOK
<1>2. Begun'
  BY TypesAre, StagesAre DEF Begun
<1>3. Debug!Frozen'
  BY TypesAre, StagesAre DEF Debug!Frozen, Begun
<1>4. Queued'
  BY TypesAre, StagesAre DEF Queued, Begun, Debug!Frozen
<1>5. Counted'
  BY TypesAre, StagesAre DEF Counted, Begun, Debug!Frozen, Queued, Over, Paused
<1>6. Numbered'
  BY TypesAre, StagesAre DEF Numbered, Begun, Over
<1> QED BY <1>1, <1>2, <1>3, <1>4, <1>5, <1>6

LEMMA SendResumeInv == ASSUME Debug!DebugAssumption, DebugIInv, Debug!SendResume PROVE DebugIInv'
<1> USE DEF DebugIInv, Debug!SendResume, Debug!thread, Debug!session, Debug!bridge, Debug!debugger
<1>1. Typed'
  <2>1. /\ stepMode' \in BOOLEAN /\ resume' \in BOOLEAN /\ halted' \in BOOLEAN /\ controller' \in BOOLEAN
        /\ getter' \in BOOLEAN /\ step' \in BOOLEAN /\ terminate' \in BOOLEAN /\ repeated' \in BOOLEAN
    BY DEF Typed, Debug!TypeOK
  <2>2. hits' \in [Debug!Frames -> SUBSET {e.line : e \in Debug!Lines}] /\ traced' \subseteq Debug!Frames
    BY TypesAre, AtIs DEF Typed
  <2>3. events' \in Seq(EventRecords)
    BY TypesAre DEF EventRecords
  <2>4. inbox' \in Seq(Debug!Pauses)
    BY TypesAre
  <2>5. pos' \in 0 .. Len(Program) /\ (tpc' \in {"tracing", "hit", "woken"} => pos' < Len(Program))
    BY TypesAre, LenIs DEF Typed
  <2>6. active' \subseteq Debug!Breakpoints /\ wanted' \subseteq Debug!Breakpoints
    BY TypesAre DEF Debug!Given
  <2>7. pause' \in Debug!Pauses /\ hitAt' \in Debug!Pauses /\ shown' \in Debug!Pauses
          /\ answered' \in Debug!Pauses /\ resumedBy' \in Debug!Pauses
    BY TypesAre
  <2>8. changes' \in 0 .. Edits /\ losses' \in 0 .. Losses
    BY TypesAre, Debug!DebugAssumption DEF Debug!DebugAssumption
  <2> QED BY <2>1, <2>2, <2>3, <2>4, <2>5, <2>6, <2>7, <2>8, TypesAre, StagesAre, EventsTyped
             DEF Typed, Debug!TypeOK
<1>2. Begun'
  BY TypesAre, StagesAre DEF Begun
<1>3. Debug!Frozen'
  BY TypesAre, StagesAre DEF Debug!Frozen, Begun
<1>4. Queued'
  BY TypesAre, StagesAre DEF Queued, Begun, Debug!Frozen
<1>5. Counted'
  BY TypesAre, StagesAre DEF Counted, Begun, Debug!Frozen, Queued, Over, Paused
<1>6. Numbered'
  <2> SUFFICES ASSUME ~repeated', ~Over
               PROVE  /\ answered' = shown
                      /\ inbox' = <<>> \/ (spc \in {"emitted", "waiting"} /\ inbox' = <<pause>>)
                      /\ spc = "waiting" /\ resumeEvent = "set" => FALSE
    BY DEF Numbered, Over
  <2>1. ~repeated /\ shown # answered
    BY DEF Typed, Debug!TypeOK
  <2>2. spc \in {"emitted", "waiting"} /\ shown = pause /\ inbox = <<>> /\ ~(spc = "waiting"
          /\ resumeEvent = "set")
    BY <2>1 DEF Numbered
  <2>3. inbox' = <<pause>>
    BY <2>2
  <2> QED BY <2>2, <2>3
<1> QED BY <1>1, <1>2, <1>3, <1>4, <1>5, <1>6

LEMMA HandleResumeInv == ASSUME Debug!DebugAssumption, DebugIInv, Debug!HandleResume PROVE DebugIInv'
<1> USE DEF DebugIInv, Debug!HandleResume, Debug!thread, Debug!session, Debug!bridge, Debug!debugger
<1>1. Typed'
  <2>1. /\ stepMode' \in BOOLEAN /\ resume' \in BOOLEAN /\ halted' \in BOOLEAN /\ controller' \in BOOLEAN
        /\ getter' \in BOOLEAN /\ step' \in BOOLEAN /\ terminate' \in BOOLEAN /\ repeated' \in BOOLEAN
    BY DEF Typed, Debug!TypeOK
  <2>2. hits' \in [Debug!Frames -> SUBSET {e.line : e \in Debug!Lines}] /\ traced' \subseteq Debug!Frames
    BY TypesAre, AtIs DEF Typed
  <2>3. events' \in Seq(EventRecords)
    BY TypesAre DEF EventRecords
  <2>4. inbox' \in Seq(Debug!Pauses)
    BY TypesAre
  <2>5. pos' \in 0 .. Len(Program) /\ (tpc' \in {"tracing", "hit", "woken"} => pos' < Len(Program))
    BY TypesAre, LenIs DEF Typed
  <2>6. active' \subseteq Debug!Breakpoints /\ wanted' \subseteq Debug!Breakpoints
    BY TypesAre DEF Debug!Given
  <2>7. pause' \in Debug!Pauses /\ hitAt' \in Debug!Pauses /\ shown' \in Debug!Pauses
          /\ answered' \in Debug!Pauses /\ resumedBy' \in Debug!Pauses
    BY TypesAre
  <2>8. changes' \in 0 .. Edits /\ losses' \in 0 .. Losses
    BY TypesAre, Debug!DebugAssumption DEF Debug!DebugAssumption
  <2> QED BY <2>1, <2>2, <2>3, <2>4, <2>5, <2>6, <2>7, <2>8, TypesAre, StagesAre, EventsTyped
             DEF Typed, Debug!TypeOK
<1>2. Begun'
  BY TypesAre, StagesAre DEF Begun
<1>3. Debug!Frozen'
  BY TypesAre, StagesAre DEF Debug!Frozen, Begun
<1>4. Queued'
  BY TypesAre, StagesAre DEF Queued, Begun, Debug!Frozen
<1>5. Counted'
  BY TypesAre, StagesAre DEF Counted, Begun, Debug!Frozen, Queued, Over, Paused
<1>6. Numbered'
  <2> SUFFICES ASSUME ~repeated, ~Over
               PROVE  /\ answered = shown /\ inbox' = <<>>
                      /\ spc = "waiting" /\ resumeEvent' = "set" => resumedBy' = pause
    BY DEF Numbered, Over
  <2>1. answered = shown /\ spc \in {"emitted", "waiting"} /\ inbox = <<pause>>
        /\ (spc = "waiting" => resumeEvent # "set")
    BY DEF Numbered
  <2>2. inbox' = <<>> /\ Head(inbox) = pause
    BY <2>1
  <2>3. resumeEvent' = "set" => resumedBy' = IF resumeEvent = "set" THEN resumedBy ELSE Head(inbox)
    BY <2>2, StagesAre
  <2> QED BY <2>1, <2>2, <2>3
<1> QED BY <1>1, <1>2, <1>3, <1>4, <1>5, <1>6

LEMMA HandleStartInv == ASSUME Debug!DebugAssumption, DebugIInv, Debug!HandleStart PROVE DebugIInv'
<1> USE DEF DebugIInv, Debug!HandleStart, Debug!thread, Debug!session, Debug!bridge, Debug!debugger, Debug!Edit
<1>1. Typed'
  <2>1. /\ stepMode' \in BOOLEAN /\ resume' \in BOOLEAN /\ halted' \in BOOLEAN /\ controller' \in BOOLEAN
        /\ getter' \in BOOLEAN /\ step' \in BOOLEAN /\ terminate' \in BOOLEAN /\ repeated' \in BOOLEAN
    BY DEF Typed, Debug!TypeOK
  <2>2. hits' \in [Debug!Frames -> SUBSET {e.line : e \in Debug!Lines}] /\ traced' \subseteq Debug!Frames
    BY TypesAre, AtIs DEF Typed
  <2>3. events' \in Seq(EventRecords)
    BY TypesAre DEF EventRecords
  <2>4. inbox' \in Seq(Debug!Pauses)
    BY TypesAre
  <2>5. pos' \in 0 .. Len(Program) /\ (tpc' \in {"tracing", "hit", "woken"} => pos' < Len(Program))
    BY TypesAre, LenIs DEF Typed
  <2>6. active' \subseteq Debug!Breakpoints /\ wanted' \subseteq Debug!Breakpoints
    BY TypesAre DEF Debug!Given
  <2>7. pause' \in Debug!Pauses /\ hitAt' \in Debug!Pauses /\ shown' \in Debug!Pauses
          /\ answered' \in Debug!Pauses /\ resumedBy' \in Debug!Pauses
    BY TypesAre
  <2>8. changes' \in 0 .. Edits /\ losses' \in 0 .. Losses
    BY TypesAre, Debug!DebugAssumption DEF Debug!DebugAssumption
  <2> QED BY <2>1, <2>2, <2>3, <2>4, <2>5, <2>6, <2>7, <2>8, TypesAre, StagesAre, EventsTyped
             DEF Typed, Debug!TypeOK
<1>2. Begun'
  BY TypesAre, StagesAre DEF Begun
<1>3. Debug!Frozen'
  BY TypesAre, StagesAre DEF Debug!Frozen, Begun
<1>4. Queued'
  BY TypesAre, StagesAre DEF Queued, Begun, Debug!Frozen
<1>5. Counted'
  BY TypesAre, StagesAre DEF Counted, Begun, Debug!Frozen, Queued, Over, Paused
<1>6. Numbered'
  BY TypesAre, StagesAre DEF Numbered, Begun, Over
<1> QED BY <1>1, <1>2, <1>3, <1>4, <1>5, <1>6

LEMMA HandleStepInv == ASSUME Debug!DebugAssumption, DebugIInv, Debug!HandleStep PROVE DebugIInv'
<1> USE DEF DebugIInv, Debug!HandleStep, Debug!thread, Debug!session, Debug!bridge, Debug!debugger, Debug!Edit
<1>1. Typed'
  <2>1. /\ stepMode' \in BOOLEAN /\ resume' \in BOOLEAN /\ halted' \in BOOLEAN /\ controller' \in BOOLEAN
        /\ getter' \in BOOLEAN /\ step' \in BOOLEAN /\ terminate' \in BOOLEAN /\ repeated' \in BOOLEAN
    BY DEF Typed, Debug!TypeOK
  <2>2. hits' \in [Debug!Frames -> SUBSET {e.line : e \in Debug!Lines}] /\ traced' \subseteq Debug!Frames
    BY TypesAre, AtIs DEF Typed
  <2>3. events' \in Seq(EventRecords)
    BY TypesAre DEF EventRecords
  <2>4. inbox' \in Seq(Debug!Pauses)
    BY TypesAre
  <2>5. pos' \in 0 .. Len(Program) /\ (tpc' \in {"tracing", "hit", "woken"} => pos' < Len(Program))
    BY TypesAre, LenIs DEF Typed
  <2>6. active' \subseteq Debug!Breakpoints /\ wanted' \subseteq Debug!Breakpoints
    BY TypesAre DEF Debug!Given
  <2>7. pause' \in Debug!Pauses /\ hitAt' \in Debug!Pauses /\ shown' \in Debug!Pauses
          /\ answered' \in Debug!Pauses /\ resumedBy' \in Debug!Pauses
    BY TypesAre
  <2>8. changes' \in 0 .. Edits /\ losses' \in 0 .. Losses
    BY TypesAre, Debug!DebugAssumption DEF Debug!DebugAssumption
  <2> QED BY <2>1, <2>2, <2>3, <2>4, <2>5, <2>6, <2>7, <2>8, TypesAre, StagesAre, EventsTyped
             DEF Typed, Debug!TypeOK
<1>2. Begun'
  BY TypesAre, StagesAre DEF Begun
<1>3. Debug!Frozen'
  BY TypesAre, StagesAre DEF Debug!Frozen, Begun
<1>4. Queued'
  BY TypesAre, StagesAre DEF Queued, Begun, Debug!Frozen
<1>5. Counted'
  BY TypesAre, StagesAre DEF Counted, Begun, Debug!Frozen, Queued, Over, Paused
<1>6. Numbered'
  BY TypesAre, StagesAre DEF Numbered, Begun, Over
<1> QED BY <1>1, <1>2, <1>3, <1>4, <1>5, <1>6

LEMMA HandleAddBreakpointsInv ==
    ASSUME Debug!DebugAssumption, DebugIInv, Debug!HandleAddBreakpoints
    PROVE  DebugIInv'
<1> USE DEF DebugIInv, Debug!HandleAddBreakpoints, Debug!thread, Debug!session, Debug!bridge, Debug!debugger,
       Debug!Edit
<1>1. Typed'
  <2>1. /\ stepMode' \in BOOLEAN /\ resume' \in BOOLEAN /\ halted' \in BOOLEAN /\ controller' \in BOOLEAN
        /\ getter' \in BOOLEAN /\ step' \in BOOLEAN /\ terminate' \in BOOLEAN /\ repeated' \in BOOLEAN
    BY DEF Typed, Debug!TypeOK
  <2>2. hits' \in [Debug!Frames -> SUBSET {e.line : e \in Debug!Lines}] /\ traced' \subseteq Debug!Frames
    BY TypesAre, AtIs DEF Typed
  <2>3. events' \in Seq(EventRecords)
    BY TypesAre DEF EventRecords
  <2>4. inbox' \in Seq(Debug!Pauses)
    BY TypesAre
  <2>5. pos' \in 0 .. Len(Program) /\ (tpc' \in {"tracing", "hit", "woken"} => pos' < Len(Program))
    BY TypesAre, LenIs DEF Typed
  <2>6. active' \subseteq Debug!Breakpoints /\ wanted' \subseteq Debug!Breakpoints
    BY TypesAre DEF Debug!Given
  <2>7. pause' \in Debug!Pauses /\ hitAt' \in Debug!Pauses /\ shown' \in Debug!Pauses
          /\ answered' \in Debug!Pauses /\ resumedBy' \in Debug!Pauses
    BY TypesAre
  <2>8. changes' \in 0 .. Edits /\ losses' \in 0 .. Losses
    BY TypesAre, Debug!DebugAssumption DEF Debug!DebugAssumption
  <2> QED BY <2>1, <2>2, <2>3, <2>4, <2>5, <2>6, <2>7, <2>8, TypesAre, StagesAre, EventsTyped
             DEF Typed, Debug!TypeOK
<1>2. Begun'
  BY TypesAre, StagesAre DEF Begun
<1>3. Debug!Frozen'
  BY TypesAre, StagesAre DEF Debug!Frozen, Begun
<1>4. Queued'
  BY TypesAre, StagesAre DEF Queued, Begun, Debug!Frozen
<1>5. Counted'
  BY TypesAre, StagesAre DEF Counted, Begun, Debug!Frozen, Queued, Over, Paused
<1>6. Numbered'
  BY TypesAre, StagesAre DEF Numbered, Begun, Over
<1> QED BY <1>1, <1>2, <1>3, <1>4, <1>5, <1>6

LEMMA HandleRemoveBreakpointsInv ==
    ASSUME Debug!DebugAssumption, DebugIInv, Debug!HandleRemoveBreakpoints
    PROVE  DebugIInv'
<1> USE DEF DebugIInv, Debug!HandleRemoveBreakpoints, Debug!thread, Debug!session, Debug!bridge,
       Debug!debugger, Debug!Edit
<1>1. Typed'
  <2>1. /\ stepMode' \in BOOLEAN /\ resume' \in BOOLEAN /\ halted' \in BOOLEAN /\ controller' \in BOOLEAN
        /\ getter' \in BOOLEAN /\ step' \in BOOLEAN /\ terminate' \in BOOLEAN /\ repeated' \in BOOLEAN
    BY DEF Typed, Debug!TypeOK
  <2>2. hits' \in [Debug!Frames -> SUBSET {e.line : e \in Debug!Lines}] /\ traced' \subseteq Debug!Frames
    BY TypesAre, AtIs DEF Typed
  <2>3. events' \in Seq(EventRecords)
    BY TypesAre DEF EventRecords
  <2>4. inbox' \in Seq(Debug!Pauses)
    BY TypesAre
  <2>5. pos' \in 0 .. Len(Program) /\ (tpc' \in {"tracing", "hit", "woken"} => pos' < Len(Program))
    BY TypesAre, LenIs DEF Typed
  <2>6. active' \subseteq Debug!Breakpoints /\ wanted' \subseteq Debug!Breakpoints
    BY TypesAre DEF Debug!Given
  <2>7. pause' \in Debug!Pauses /\ hitAt' \in Debug!Pauses /\ shown' \in Debug!Pauses
          /\ answered' \in Debug!Pauses /\ resumedBy' \in Debug!Pauses
    BY TypesAre
  <2>8. changes' \in 0 .. Edits /\ losses' \in 0 .. Losses
    BY TypesAre, Debug!DebugAssumption DEF Debug!DebugAssumption
  <2> QED BY <2>1, <2>2, <2>3, <2>4, <2>5, <2>6, <2>7, <2>8, TypesAre, StagesAre, EventsTyped
             DEF Typed, Debug!TypeOK
<1>2. Begun'
  BY TypesAre, StagesAre DEF Begun
<1>3. Debug!Frozen'
  BY TypesAre, StagesAre DEF Debug!Frozen, Begun
<1>4. Queued'
  BY TypesAre, StagesAre DEF Queued, Begun, Debug!Frozen
<1>5. Counted'
  BY TypesAre, StagesAre DEF Counted, Begun, Debug!Frozen, Queued, Over, Paused
<1>6. Numbered'
  BY TypesAre, StagesAre DEF Numbered, Begun, Over
<1> QED BY <1>1, <1>2, <1>3, <1>4, <1>5, <1>6

LEMMA HandleQuitInv == ASSUME Debug!DebugAssumption, DebugIInv, Debug!HandleQuit PROVE DebugIInv'
<1> USE DEF DebugIInv, Debug!HandleQuit, Debug!thread, Debug!session, Debug!bridge, Debug!debugger
<1>1. Typed'
  <2>1. /\ stepMode' \in BOOLEAN /\ resume' \in BOOLEAN /\ halted' \in BOOLEAN /\ controller' \in BOOLEAN
        /\ getter' \in BOOLEAN /\ step' \in BOOLEAN /\ terminate' \in BOOLEAN /\ repeated' \in BOOLEAN
    BY DEF Typed, Debug!TypeOK
  <2>2. hits' \in [Debug!Frames -> SUBSET {e.line : e \in Debug!Lines}] /\ traced' \subseteq Debug!Frames
    BY TypesAre, AtIs DEF Typed
  <2>3. events' \in Seq(EventRecords)
    BY TypesAre DEF EventRecords
  <2>4. inbox' \in Seq(Debug!Pauses)
    BY TypesAre
  <2>5. pos' \in 0 .. Len(Program) /\ (tpc' \in {"tracing", "hit", "woken"} => pos' < Len(Program))
    BY TypesAre, LenIs DEF Typed
  <2>6. active' \subseteq Debug!Breakpoints /\ wanted' \subseteq Debug!Breakpoints
    BY TypesAre DEF Debug!Given
  <2>7. pause' \in Debug!Pauses /\ hitAt' \in Debug!Pauses /\ shown' \in Debug!Pauses
          /\ answered' \in Debug!Pauses /\ resumedBy' \in Debug!Pauses
    BY TypesAre
  <2>8. changes' \in 0 .. Edits /\ losses' \in 0 .. Losses
    BY TypesAre, Debug!DebugAssumption DEF Debug!DebugAssumption
  <2> QED BY <2>1, <2>2, <2>3, <2>4, <2>5, <2>6, <2>7, <2>8, TypesAre, StagesAre, EventsTyped
             DEF Typed, Debug!TypeOK
<1>2. Begun'
  BY TypesAre, StagesAre DEF Begun
<1>3. Debug!Frozen'
  BY TypesAre, StagesAre DEF Debug!Frozen, Begun
<1>4. Queued'
  BY TypesAre, StagesAre DEF Queued, Begun, Debug!Frozen
<1>5. Counted'
  BY TypesAre, StagesAre DEF Counted, Begun, Debug!Frozen, Queued, Over, Paused
<1>6. Numbered'
  BY TypesAre, StagesAre DEF Numbered, Begun, Over
<1> QED BY <1>1, <1>2, <1>3, <1>4, <1>5, <1>6

LEMMA DebugInitInv == ASSUME Debug!DebugAssumption, Debug!Init PROVE DebugIInv
<1> USE DEF Debug!Init
<1>1. Len(Program) \in Nat
  BY DEF Debug!DebugAssumption
<1>2. 0 \in Debug!Pauses /\ 0 \in 0 .. Edits /\ 0 \in 0 .. Losses /\ inbox \in Seq(Debug!Pauses)
  BY <1>1 DEF Debug!Pauses, Debug!DebugAssumption
<1>3. hits \in [Debug!Frames -> SUBSET {e.line : e \in Debug!Lines}] /\ events \in Seq(EventRecords)
  OBVIOUS
<1>4. step \in BOOLEAN /\ stepMode \in BOOLEAN /\ resume \in BOOLEAN /\ halted \in BOOLEAN
                          /\ controller \in BOOLEAN
      /\ getter \in BOOLEAN /\ terminate \in BOOLEAN /\ repeated \in BOOLEAN
  OBVIOUS
<1>5. Typed
  BY <1>2, <1>3, <1>4 DEF Typed, Debug!TypeOK
<1>6. Begun /\ Debug!Frozen /\ Queued
  BY DEF Begun, Debug!Frozen, Queued
<1>7. Counted /\ Numbered
  BY DEF Counted, Numbered
<1> QED BY <1>5, <1>6, <1>7 DEF DebugIInv

\* A step that changes nothing.
LEMMA StutterInv == ASSUME DebugIInv, UNCHANGED Debug!vars PROVE DebugIInv'
<1> USE DEF Debug!vars, Debug!thread, Debug!session, Debug!bridge, Debug!debugger
<1>1. Typed'
  BY DEF DebugIInv, Typed, Debug!TypeOK
<1>2. Begun' /\ Debug!Frozen' /\ Queued'
  BY DEF DebugIInv, Begun, Debug!Frozen, Queued
<1>3. Counted' /\ Numbered'
  BY DEF DebugIInv, Counted, Numbered, Over, Paused
<1> QED BY <1>1, <1>2, <1>3 DEF DebugIInv

LEMMA DebugNextInv == ASSUME Debug!DebugAssumption, DebugIInv, [Debug!Next]_(Debug!vars) PROVE DebugIInv'
<1>1. CASE UNCHANGED Debug!vars
  BY <1>1, StutterInv
<1>2. CASE Debug!ThreadStep
  BY <1>2, CallbackInv, TraceCallInv, TraceReturnInv, TraceLineInv, TraceBreakInv, WakeInv, ClearInv, EndInv
     DEF Debug!ThreadStep
<1>3. CASE Debug!StreamStep
  BY <1>3, StartStreamInv, UpdateBreakpointsInv, ResumeInv, DrainStateInv, DrainBreakpointInv, DrainTerminalInv,
     EmitBreakpointInv, WaitForResumeInv, EndWaitInv, DisposeInv, SetResumeInv, JoinInv
     DEF Debug!StreamStep
<1>4. CASE Debug!Cancel \/ Debug!OrphanGets
  BY <1>4, CancelInv, OrphanGetsInv
<1>5. CASE \/ Debug!SendResume \/ Debug!HandleResume \/ Debug!HandleQuit
           \/ Debug!HandleStart \/ Debug!HandleStep \/ Debug!HandleAddBreakpoints \/ Debug!HandleRemoveBreakpoints
  BY <1>5, SendResumeInv, HandleResumeInv, HandleQuitInv, HandleStartInv, HandleStepInv,
     HandleAddBreakpointsInv, HandleRemoveBreakpointsInv
<1> QED BY <1>1, <1>2, <1>3, <1>4, <1>5 DEF Debug!Next

\* The invariant, of every reachable state.
THEOREM DebugInvariant == Debug!DebugAssumption => (Debug!Spec => []DebugIInv)
<1> SUFFICES ASSUME Debug!DebugAssumption PROVE Debug!Spec => []DebugIInv
  OBVIOUS
<1>1. Debug!Init => DebugIInv
  BY DebugInitInv
<1>2. DebugIInv /\ [Debug!Next]_(Debug!vars) => DebugIInv'
  BY DebugNextInv
<1> QED BY <1>1, <1>2, PTL DEF Debug!Spec

\* A pause shows the program as it stands, and ends by its own answer, as long
\* as the debugger repeats none (debug.py, lines 266-282, 447-455; _bridge.py,
\* lines 679-706).
THEOREM AlwaysPausedRight == Debug!Spec => []PausedRight
<1>1. DebugIInv => PausedRight
  BY DEF DebugIInv, Typed, PausedRight, Debug!PausedRight, Numbered, Over, Debug!RightPause
<1> QED BY <1>1, DebuggingIsAssumed, DebugInvariant, PTL

===============================================================================

------------------------------ MODULE Fat32Card ------------------------------
(***************************************************************************)
(* The FAT32 card: allocation and chains (storage/fat32_alloc.c),          *)
(* directories (fat32_dir.c, file_dir_scan.c), the writers of photos and   *)
(* QR texts (apps/camera/camera_photo_writer.c and _path.c,                *)
(* apps/qr_camera/qr_text_writer.c and _path.c), the Files browser with    *)
(* its deletion (apps/files/file_delete.c, file_dir.c, files_backend.c)    *)
(* and the service that notices a card coming and going                    *)
(* (services/sd_service.c).                                                *)
(*                                                                         *)
(* The firmware has no journal: a file is allocated, written and only then *)
(* entered in its directory, and an entry is taken out before its chain is *)
(* freed.  One action here is the work up to and including one write to    *)
(* the card, so that the card can be pulled, the power can go, or a block  *)
(* transfer can fail between any two writes.                               *)
(*                                                                         *)
(* A directory slot stands for an entry with the slots of its long name,   *)
(* the dot entries are left out, and the FAT is its first copy: the only   *)
(* one ever read (fat_next_cluster), the others being written after it.    *)
(*                                                                         *)
(* Bounds: MaxFileClusters, MaxSaves, MaxFaults, and no call begins once a *)
(* deletion went wild, as nothing is claimed from there on.                *)
(***************************************************************************)
EXTENDS Integers, Sequences, FiniteSets, SequencesExt, FiniteSetsExt

CONSTANTS
    Writers,            \* the directories written to: photos, QR texts
    LastCluster,        \* cluster_count + 1
    SlotsPerCluster,    \* directory entries in a cluster
    MaxFileClusters,    \* bound on the size of a file
    MaxSaves,           \* bound on the files saved in a behaviour
    MaxFaults           \* bound on pulls, power cuts and failed transfers

ASSUME Fat32Assumption ==
    /\ LastCluster \in Nat /\ LastCluster >= 2
    /\ SlotsPerCluster \in Nat \ {0} /\ MaxFileClusters \in Nat
    /\ MaxSaves \in Nat /\ MaxFaults \in Nat
    /\ "files" \notin Writers

VARIABLES
    fat,        \* the FAT on the card
    data,       \* the contents of each cluster on the card
    card,       \* a card is in the slot
    ready,      \* the card was initialised and answers commands
    mounted,    \* g_sd_present and g_fat_mounted
    hint,       \* g_fat_alloc_hint
    screen,     \* a writer's app, or "files" (the SD poll runs here only)
    cur,        \* g_files_cluster
    list,       \* the entries the browser shows
    op,         \* the storage call in progress and where it stands
    faults, saves,
    saved,      \* the files reported saved and not deleted since
    misread,    \* a failed FAT read was taken for the end of a chain
    wild,       \* a deletion took FAT data for what was left of a directory
    disturbed   \* some call failed, or was cut short

cardVars == <<fat, data, card, ready, mounted, hint, screen, cur, list, op,
          faults, saves, saved, misread, wild, disturbed>>
onCard == <<fat, data>>
plugged == <<card, ready, mounted>>
browser == <<screen, cur, list>>
ghosts == <<saves, saved, wild>>

-----------------------------------------------------------------------------
(* Chains and directories as they are on the card.                         *)

Root == 2
Clusters == Root..LastCluster
Free == 0
EOC == LastCluster + 1
Idle == [at |-> "idle"]

\* The record r with the fields of changes put in or added.
With(r, changes) ==
    [k \in DOMAIN r \cup DOMAIN changes |->
        IF k \in DOMAIN changes THEN changes[k] ELSE r[k]]

End == [kind |-> "end"]
Deleted == [kind |-> "deleted"]
FileEntry(name, first, size, id) ==
    [kind |-> "file", name |-> name, first |-> first, size |-> size, id |-> id]
DirEntry(w, first) == [kind |-> "dir", name |-> w, first |-> first]

Zeroed == [slots |-> [i \in 1..SlotsPerCluster |-> End], file |-> 0]
Holding(id) == [slots |-> [i \in 1..SlotsPerCluster |-> Deleted], file |-> id]

\* The clusters met by following the FAT from c; a cycle is cut at its length.
Chain(c) ==
    LET walk[w \in Seq(Clusters)] ==
          LET next == fat[w[Len(w)]]
          IN  IF next \in Clusters /\ Len(w) < LastCluster
              THEN walk[Append(w, next)] ELSE w
    IN  walk[<<c>>]

SlotAt(chain, p) ==
    <<chain[(p - 1) \div SlotsPerCluster + 1], ((p - 1) % SlotsPerCluster) + 1>>
EntryAt(chain, p) ==
    LET s == SlotAt(chain, p) IN data[s[1]].slots[s[2]]
Positions(chain) == 1..(Len(chain) * SlotsPerCluster)

\* A scan stops at the first slot never used.
Listed(chain) ==
    LET ends == {p \in Positions(chain) : EntryAt(chain, p) = End}
        used == IF ends = {} THEN Positions(chain) ELSE 1..(Min(ends) - 1)
    IN  {p \in used : EntryAt(chain, p) # Deleted}

\* What a walk of the chain of c gets to see: fat_next_cluster answers a
\* failed read as it answers the end of the chain.
Seen(c) ==
    LET full == Chain(c)
    IN  {full} \cup (IF faults < MaxFaults
                     THEN {SubSeq(full, 1, n) : n \in 1..(Len(full) - 1)} ELSE {})
Cost(seen, c) == IF seen = Chain(c) THEN 0 ELSE 1

Shown(chain) == {[pos |-> p, entry |-> EntryAt(chain, p)] : p \in Listed(chain)}

-----------------------------------------------------------------------------
(* Writing.                                                                *)

\* One block write (both copies of a FAT sector count as one): done, or
\* reported as failed, whether the card stored it or not.
Put(f, d, next) ==
    \/ /\ fat' = f /\ data' = d /\ op' = next
       /\ UNCHANGED <<faults, disturbed>>
    \/ /\ faults < MaxFaults /\ faults' = faults + 1
       /\ disturbed' = TRUE /\ op' = Idle
       /\ \/ fat' = f /\ data' = d
          \/ UNCHANGED onCard

GiveUp == op' = Idle /\ disturbed' = TRUE

\* fat_find_free_cluster: from the hint up, then from the start.  (A FAT read
\* that fails here passes over a free cluster; the search goes on to another
\* or the call fails, as it may at any step.)
FreeClusters == {c \in Clusters : fat[c] = Free}
FirstFree_Unchecked == IF hint \in Clusters THEN hint ELSE Root + 1
FirstFree ==
    LET ahead == {c \in FreeClusters : c >= hint}
    IN  IF ahead # {} THEN Min(ahead) ELSE Min(FreeClusters)

\* fat_alloc_chain: each cluster is marked as an end, then the one before it
\* is joined to it.  When the card is full, what was taken stays taken.
TakeCluster ==
    /\ op.at = "alloc"
    /\ IF FreeClusters = {} THEN GiveUp /\ UNCHANGED <<onCard, hint, faults>>
       ELSE /\ Put([fat EXCEPT ![FirstFree] = EOC], data,
                   With(op, [got |-> Append(op.got, FirstFree),
                    at |-> IF op.got # <<>> THEN "link"
                           ELSE IF op.want = 1 THEN op.then ELSE "alloc"]))
            /\ hint' = FirstFree + 1
    /\ UNCHANGED <<plugged, browser, ghosts, misread>>

LinkCluster ==
    /\ op.at = "link"
    /\ LET n == Len(op.got)
       IN  Put([fat EXCEPT ![op.got[n - 1]] = op.got[n]], data,
               With(op, [at |-> IF n = op.want THEN op.then ELSE "alloc"]))
    /\ UNCHANGED <<plugged, hint, browser, ghosts, misread>>

Alloc(r, want, then) ==
    With(r, [at |-> "alloc", got |-> <<>>, want |-> want, then |-> then])

\* fat_dir_find_slots: the first slot free for use, or else a new cluster for
\* the directory, joined to the last one seen once it is cleared.
FindSlot ==
    /\ op.at = "slot"
    /\ \E seen \in Seen(op.into) :
         LET open == {p \in Positions(seen) : EntryAt(seen, p) \in {End, Deleted}}
         IN  IF open # {}
             THEN /\ seen = Chain(op.into)
                  /\ op' = With(op, [at |-> "enter", slot |-> SlotAt(seen, Min(open))])
                  /\ UNCHANGED <<faults, misread>>
             ELSE /\ op' = Alloc(With(op, [last |-> Last(seen)]), 1, "clear")
                  /\ faults' = faults + Cost(seen, op.into)
                  /\ misread' = (misread \/ seen # Chain(op.into))
    /\ UNCHANGED <<onCard, plugged, hint, browser, ghosts, disturbed>>

ClearCluster ==
    /\ op.at = "clear"
    /\ Put(fat, [data EXCEPT ![op.got[1]] = Zeroed],
           With(op, [at |-> "join", slot |-> <<op.got[1], 1>>]))
    /\ UNCHANGED <<plugged, hint, browser, ghosts, misread>>

JoinCluster ==
    /\ op.at = "join"
    /\ Put([fat EXCEPT ![op.last] = op.got[1]], data, With(op, [at |-> "enter"]))
    /\ UNCHANGED <<plugged, hint, browser, ghosts, misread>>

\* fat_dir_write_slots; entering the file ends the save, which then reports
\* success, and entering a directory leads on to the file's name.
Enter ==
    /\ op.at = "enter"
    /\ Put(fat, [data EXCEPT ![op.slot[1]].slots[op.slot[2]] = op.entry],
           IF op.entry.kind = "file" THEN Idle
           ELSE [at |-> "name", dir |-> op.entry.first,
                 id |-> op.id, size |-> op.size])
    /\ saved' = IF op.entry.kind = "file" /\ disturbed' = disturbed /\ faults' = faults
                THEN saved \cup {[id |-> op.entry.id, dir |-> screen,
                                  size |-> op.entry.size]}
                ELSE saved
    /\ UNCHANGED <<plugged, hint, browser, saves, wild, misread>>

-----------------------------------------------------------------------------
(* Saving a photo or a text.                                               *)

\* file_mount_if_needed, and whether the calls after it can reach the card.
\* The cached flags hide a card that was pulled and put back.
Reachable == IF mounted THEN ready ELSE card
MountIfNeeded ==
    IF mounted \/ ~card THEN UNCHANGED <<plugged, hint>>
    ELSE mounted' = TRUE /\ ready' = TRUE /\ hint' = Root /\ UNCHANGED card

BeginSave(size) ==
    /\ op = Idle /\ screen \in Writers /\ saves < MaxSaves /\ ~wild /\ Reachable
    /\ MountIfNeeded
    /\ saves' = saves + 1
    /\ op' = [at |-> "find_dir", id |-> saves + 1, size |-> size]
    /\ UNCHANGED <<onCard, browser, saved, wild, faults, misread, disturbed>>

\* photo_ensure_dir, qr_text_ensure_dir: the first directory of that name.
FindDir ==
    /\ op.at = "find_dir"
    /\ \E seen \in Seen(Root) :
         LET named == {p \in Listed(seen) : EntryAt(seen, p).kind = "dir"
                                            /\ EntryAt(seen, p).name = screen}
         IN  /\ op' = IF named # {}
                      THEN With(op, [at |-> "name", dir |-> EntryAt(seen, Min(named)).first])
                      ELSE Alloc(op, 1, "init")
             /\ faults' = faults + Cost(seen, Root)
    /\ UNCHANGED <<onCard, plugged, hint, browser, ghosts, misread, disturbed>>

\* fat_init_directory_cluster, before the directory is entered in the root.
InitDir ==
    /\ op.at = "init"
    /\ Put(fat, [data EXCEPT ![op.got[1]] = Zeroed],
           With(op, [at |-> "slot", into |-> Root, entry |-> DirEntry(screen, op.got[1])]))
    /\ UNCHANGED <<plugged, hint, browser, ghosts, misread>>

Files(chain) == {EntryAt(chain, p) : p \in Listed(chain)}
HighestName(chain) == Max({0} \cup {e.name : e \in {f \in Files(chain) : f.kind = "file"}})

\* photo_next_name: one more than the highest index listed.
NextName ==
    /\ op.at = "name"
    /\ \E seen \in Seen(op.dir) :
         /\ op' = Alloc(With(op, [name |-> HighestName(seen) + 1]), op.size, "write")
         /\ faults' = faults + Cost(seen, op.dir)
         /\ misread' = (misread \/ HighestName(seen) # HighestName(Chain(op.dir)))
    /\ UNCHANGED <<onCard, plugged, hint, browser, ghosts, disturbed>>

\* photo_write_file_chain: the data, and then the entry that makes it a file.
WriteData ==
    /\ op.at = "write"
    /\ Put(fat, [c \in Clusters |-> IF c \in ToSet(op.got) THEN Holding(op.id) ELSE data[c]],
           [at |-> "slot", into |-> op.dir,
            entry |-> FileEntry(op.name, op.got[1], op.size, op.id)])
    /\ UNCHANGED <<plugged, hint, browser, ghosts, misread>>

-----------------------------------------------------------------------------
(* Deleting from the Files browser.                                        *)

FilesUnder(e) ==
    IF e.kind = "file" THEN {e.id}
    ELSE {f.id : f \in {g \in Files(Chain(e.first)) : g.kind = "file"}}

BeginDelete(item) ==
    /\ op = Idle /\ screen = "files" /\ item \in list /\ mounted /\ ready /\ ~wild
    /\ op' = [at |-> IF item.entry.kind = "dir" THEN "contents" ELSE "mark",
              in |-> cur, pos |-> item.pos, entry |-> item.entry, from |-> 1,
              back |-> "reload"]
    /\ saved' = {s \in saved : s.id \notin FilesUnder(item.entry)}
    /\ UNCHANGED <<onCard, plugged, hint, browser, saves, wild, faults, misread,
                   disturbed>>

\* files_delete_dir_contents up to the next entry of the directory.
DeleteContents ==
    /\ op.at = "contents"
    /\ LET inside == Chain(op.entry.first)
           left == {p \in Listed(inside) : p >= op.from}
           next == Min(left)
       IN  op' = IF left = {} THEN With(op, [at |-> "mark"])
                 ELSE [at |-> "mark", in |-> op.entry.first, pos |-> next,
                       entry |-> EntryAt(inside, next), back |-> "rest", whole |-> op]
    /\ UNCHANGED <<onCard, plugged, hint, browser, ghosts, faults, misread, disturbed>>

\* What is left of that sector (a cluster here) is read from the buffer that
\* deleting the entry has filled with a FAT sector: bytes that end the loop,
\* that are skipped, or that pass for an entry at their place, with some
\* number for the head of its chain.
RestOfSector == {p \in Positions(Chain(op.in)) : p > op.pos
                    /\ SlotAt(Chain(op.in), p)[1] = SlotAt(Chain(op.in), op.pos)[1]}
DeleteRest ==
    /\ op.at = "rest"
    /\ \/ /\ op' = With(op.whole, [from |-> op.pos + Cardinality(RestOfSector) + 1])
          /\ wild' = (wild \/ RestOfSector \cap Listed(Chain(op.in)) # {})
       \/ /\ RestOfSector # {}
          /\ \/ /\ op' = With(op.whole, [at |-> "mark"])
                /\ wild' = (wild \/ Listed(Chain(op.in)) # {})
             \/ \E p \in RestOfSector, c \in Clusters :
                   /\ op' = With(op, [at |-> "mark", pos |-> p,
                                      entry |-> [kind |-> "file", first |-> c]])
                   /\ wild' = TRUE
    /\ UNCHANGED <<onCard, plugged, hint, browser, saves, saved, faults, misread,
                   disturbed>>

\* fat_dir_mark_deleted finds the slot again by its ordinal.
MarkDeleted_OffByOne ==
    /\ op.at = "mark"
    /\ LET s == SlotAt(Chain(op.in), op.pos - 1)
       IN  IF op.pos - 1 \notin Positions(Chain(op.in))
           THEN GiveUp /\ UNCHANGED <<onCard, faults>>
           ELSE Put(fat, [data EXCEPT ![s[1]].slots[s[2]] = Deleted],
                    With(op, [at |-> "free", cluster |-> op.entry.first]))
    /\ UNCHANGED <<plugged, hint, browser, ghosts, misread>>
MarkDeleted ==
    /\ op.at = "mark"
    /\ LET s == SlotAt(Chain(op.in), op.pos)
       IN  IF op.pos \notin Positions(Chain(op.in))
           THEN GiveUp /\ UNCHANGED <<onCard, faults>>
           ELSE Put(fat, [data EXCEPT ![s[1]].slots[s[2]] = Deleted],
                    With(op, [at |-> "free", cluster |-> op.entry.first]))
    /\ UNCHANGED <<plugged, hint, browser, ghosts, misread>>

NextCluster_Lost(c) == EOC
NextCluster(c) == fat[c]

\* fat_free_chain: one cluster after the other, the link read before it goes.
FreeCluster ==
    /\ op.at = "free"
    /\ \E next \in {NextCluster(op.cluster)} \cup (IF faults < MaxFaults THEN {EOC} ELSE {}) :
         LET more == next \in Clusters
             missed == IF next = NextCluster(op.cluster) THEN 0 ELSE 1
         IN  /\ missed = 0 \/ NextCluster(op.cluster) \in Clusters
             /\ \/ /\ fat' = [fat EXCEPT ![op.cluster] = Free]
                   /\ op' = With(op, IF more THEN [cluster |-> next] ELSE [at |-> op.back])
                   /\ hint' = IF more \/ op.entry.first >= hint THEN hint ELSE op.entry.first
                   /\ faults' = faults + missed /\ misread' = (misread \/ missed = 1)
                   /\ UNCHANGED disturbed
                \/ /\ faults < MaxFaults /\ missed = 0
                   /\ faults' = faults + 1 /\ GiveUp
                   /\ fat' \in {fat, [fat EXCEPT ![op.cluster] = Free]}
                   /\ UNCHANGED <<hint, misread>>
    /\ UNCHANGED <<data, plugged, browser, ghosts>>

\* files_load_dir empties the list, then shows what it could read.
Reload ==
    /\ op.at = "reload"
    /\ \E seen \in Seen(cur) \cup (IF faults < MaxFaults THEN {<<>>} ELSE {}) :
         /\ list' = Shown(seen) /\ faults' = faults + Cost(seen, cur)
    /\ op' = Idle
    /\ UNCHANGED <<onCard, plugged, hint, screen, cur, ghosts, misread, disturbed>>

-----------------------------------------------------------------------------
(* The browser, the card and the service.                                  *)

\* files_backend_enter; leaving the browser leaves a list nobody uses.
EnterFiles ==
    /\ op = Idle /\ screen \in Writers
    /\ screen' = "files" /\ cur' = Root /\ MountIfNeeded
    /\ list' = IF Reachable THEN Shown(Chain(Root)) ELSE {}
    /\ UNCHANGED <<onCard, op, ghosts, faults, misread, disturbed>>

EnterWriter(w) ==
    /\ op = Idle /\ screen = "files"
    /\ screen' = w /\ list' = {} /\ cur' = Root
    /\ UNCHANGED <<onCard, plugged, hint, op, ghosts, faults, misread, disturbed>>

\* files_open_selected on a directory, files_back_from_list.
Open(dir) ==
    /\ op = Idle /\ screen = "files" /\ mounted
    /\ \/ cur # Root /\ dir = Root
       \/ \E item \in list : item.entry.kind = "dir" /\ item.entry.first = dir
    /\ cur' = dir /\ list' = IF ready THEN Shown(Chain(dir)) ELSE {}
    /\ UNCHANGED <<onCard, plugged, hint, screen, op, ghosts, faults, misread, disturbed>>

\* sd_service_tick when its poll is due, and files_on_sd_event.
NoteRemoved ==
    mounted' = FALSE /\ list' = {} /\ UNCHANGED <<card, ready, hint, cur>>
SdServiceTick_Flags ==
    /\ op = Idle /\ screen = "files"
    /\ \/ mounted /\ ~card /\ NoteRemoved
       \/ ~mounted /\ card /\ MountIfNeeded
          /\ cur' = Root /\ list' = Shown(Chain(Root))
    /\ UNCHANGED <<onCard, screen, op, ghosts, faults, misread, disturbed>>
SdServiceTick ==
    /\ op = Idle /\ screen = "files"
    /\ \/ mounted /\ ~ready /\ NoteRemoved
       \/ ~mounted /\ card /\ MountIfNeeded
          /\ cur' = Root /\ list' = Shown(Chain(Root))
    /\ UNCHANGED <<onCard, screen, op, ghosts, faults, misread, disturbed>>

\* The health check of a card that is there fails: it counts as removed.
HealthCheckFails ==
    /\ op = Idle /\ screen = "files" /\ mounted /\ ready
    /\ faults < MaxFaults /\ faults' = faults + 1 /\ NoteRemoved
    /\ UNCHANGED <<onCard, screen, op, ghosts, misread, disturbed>>

\* A block transfer fails: every call gives up, and what it wrote stays.
TransferFails ==
    /\ op # Idle /\ op.at # "reload" /\ faults < MaxFaults
    /\ faults' = faults + 1 /\ GiveUp
    /\ UNCHANGED <<onCard, plugged, hint, browser, ghosts, misread>>

CardPulled ==
    /\ card /\ faults < MaxFaults /\ faults' = faults + 1
    /\ card' = FALSE /\ ready' = FALSE /\ op' = Idle
    /\ disturbed' = (disturbed \/ op # Idle)
    /\ list' = IF op.at = "reload" THEN {} ELSE list
    /\ UNCHANGED <<onCard, mounted, hint, screen, cur, ghosts, misread>>

CardInserted ==
    /\ ~card /\ card' = TRUE
    /\ UNCHANGED <<onCard, ready, mounted, hint, browser, op, ghosts, faults,
                   misread, disturbed>>

PowerCut ==
    /\ faults < MaxFaults /\ faults' = faults + 1
    /\ ready' = FALSE /\ mounted' = FALSE /\ hint' = Root /\ op' = Idle
    /\ screen' = "files" /\ cur' = Root /\ list' = {}
    /\ disturbed' = (disturbed \/ op # Idle)
    /\ UNCHANGED <<onCard, card, ghosts, misread>>

-----------------------------------------------------------------------------

CardInit ==
    /\ fat = [c \in Clusters |-> IF c = Root THEN EOC ELSE Free]
    /\ data = [c \in Clusters |-> IF c = Root THEN Zeroed ELSE Holding(0)]
    /\ card = TRUE /\ ready = FALSE /\ mounted = FALSE /\ hint = Root
    /\ screen = "files" /\ cur = Root /\ list = {} /\ op = Idle
    /\ faults = 0 /\ saves = 0 /\ saved = {} /\ misread = FALSE /\ wild = FALSE
    /\ disturbed = FALSE

Save == FindDir \/ NextName \/ InitDir \/ WriteData \/ TakeCluster \/ LinkCluster
        \/ FindSlot \/ ClearCluster \/ JoinCluster \/ Enter
Delete == DeleteContents \/ DeleteRest \/ MarkDeleted \/ FreeCluster \/ Reload

CardNext ==
    \/ \E size \in 1..MaxFileClusters : BeginSave(size)
    \/ Save
    \/ \E item \in list : BeginDelete(item)
    \/ Delete
    \/ EnterFiles \/ \E w \in Writers : EnterWriter(w)
    \/ \E dir \in Clusters : Open(dir)
    \/ SdServiceTick \/ HealthCheckFails \/ TransferFails \/ CardPulled \/ CardInserted \/ PowerCut

\* The super loop polls the card again and again.
CardSpec == CardInit /\ [][CardNext]_cardVars /\ WF_cardVars(SdServiceTick) /\ WF_cardVars(Save \/ Delete)

-----------------------------------------------------------------------------
(* Properties.                                                             *)

LiveDirs == {e \in Files(Chain(Root)) : e.kind = "dir"}

\* The chains of a directory's own clusters and of all it lists, by place.
ChainsOf(dir) ==
    LET C == Chain(dir)
    IN  {<<dir, 0, C>>} \cup {<<dir, p, Chain(EntryAt(C, p).first)>> : p \in Listed(C)}
Owned ==
    LET C == Chain(Root)
        dirs == {p \in Listed(C) : EntryAt(C, p).kind = "dir"}
    IN  {<<Root, 0, C>>}
        \cup UNION {ChainsOf(EntryAt(C, p).first) : p \in dirs}

\* Whatever call was cut short, and wherever, the chains the directories lead
\* to are whole and no two share a cluster: no later save can write into a
\* file.  This is what the order of the writes in fat_alloc_chain,
\* photo_save_frame, fat_dir_find_slots and files_delete_selected is for.  The
\* exception is files_delete_dir_contents, which reads on in a buffer it lent
\* to fat_free_chain.
ChainsDisjoint ==
    wild \/ LET owned == Owned IN
        /\ \A o \in owned : fat[Last(o[3])] = EOC /\ IsInjective(o[3])
        /\ \A o1, o2 \in owned :
              o1 # o2 => ToSet(o1[3]) \cap ToSet(o2[3]) = {}

\* A file reported saved stays in a directory of its app, whole, with its own
\* contents and under a name no other file there has, until the user deletes
\* it: through other saves and deletions, directories that grow, slots used
\* again, pulled cards and power cuts.  The exceptions are the two the ghosts
\* name: a FAT read that failed taken for the end of a directory
\* (fat_dir_find_slots then cuts off the rest of it, photo_next_name gives a
\* name again), and the deletion of a directory with several entries.
SavedFilesStay ==
    misread \/ wild \/ LET dirs == LiveDirs IN
        \A s \in saved : \E d \in dirs : d.name = s.dir /\
            \E e \in Files(Chain(d.first)) :
                /\ e.kind = "file" /\ e.id = s.id
                /\ \A other \in Files(Chain(d.first)) \ {e} : other.name # e.name
                /\ LET C == Chain(e.first)
                   IN  Len(C) = s.size /\ \A c \in ToSet(C) : data[c].file = s.id

\* As long as every call succeeds, a cluster not free belongs to something
\* listed: saving and deleting for ever does not use the card up.
NothingLeaks ==
    op = Idle /\ ~disturbed /\ ~misread /\ ~wild =>
        Clusters \ FreeClusters = UNION {ToSet(o[3]) : o \in Owned}

\* A card that is in the slot gets mounted by the service's poll, also when
\* it was pulled and put back between two polls and the flags still say that
\* it is there.
CardComesBack == [](card /\ screen = "files" ~> (mounted /\ ready) \/ ~card \/ screen # "files")

=============================================================================

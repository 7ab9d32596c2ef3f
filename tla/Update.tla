--------------------------------- MODULE Update --------------------------------
(***************************************************************************)
(* How coreq-update fills the package tree: the loops over the cache table *)
(* in update() of coreq-update.cc, with the cache methods CoreqCache,      *)
(* ParseCache and MetadataCache.                                           *)
(*                                                                         *)
(* Every overlay is a cache in the table.  All CoreqCaches that use the    *)
(* same cachefile are read together when the first one's turn comes; it    *)
(* makes the others slaves, which only report at their own turn what went  *)
(* wrong.  The other methods read category by category and package by      *)
(* package.  All overlays share the packages of the tree.                  *)
(***************************************************************************)
EXTENDS ExtendedVersion

CONSTANTS
  Setups,       \* what coreq-update may be asked to do: a cache table, and the excluded labels
  Enabled,      \* the categories known from the profiles, as numbers in their order
  Cachefiles,   \* for each cachefile, its overlay labels and its packages
  Directories,  \* for each overlay label, the packages in its directory
  Garbage       \* bound: the values an uninitialized overlay_key may have

(* An entry of a cache table has a method and a label, and more depending on
   its method:
     "coreq"     file, overlay ("" for key 0, "*" for all, or a label),
                 never_add_categories
     "parse"     try_parse, ebuild (the method executes ebuilds), further
     "metadata"  nothing more
   A package of a cachefile has versions with their overlay_key in the
   cachefile, a package of a directory has files, each with its version. *)

IsCache(e) ==
  \/ /\ e.method = "coreq" /\ e.file \in DOMAIN Cachefiles
     /\ e.never_add_categories \in BOOLEAN
  \/ /\ e.method = "parse" /\ e.label \in DOMAIN Directories
     /\ e.try_parse \in BOOLEAN /\ e.ebuild \in BOOLEAN /\ e.further \in BOOLEAN
  \/ e.method = "metadata" /\ e.label \in DOMAIN Directories

IsSequence(s) == DOMAIN s = 1..Len(s) /\ Len(s) \in Nat

ASSUME UpdateAssumption ==
  /\ Enabled \subseteq Nat
  /\ Garbage \subseteq Keys
  /\ \A s \in Setups :
       /\ IsSequence(s.caches) /\ \A i \in DOMAIN s.caches : IsCache(s.caches[i])
       /\ 0..Len(s.caches) - 1 \subseteq Keys
  /\ \A f \in DOMAIN Cachefiles :
       /\ IsSequence(Cachefiles[f].overlays) /\ IsSequence(Cachefiles[f].packages)
       /\ \A k \in DOMAIN Cachefiles[f].packages :
            LET p == Cachefiles[f].packages[k] IN
            /\ p.category \in Nat /\ IsSequence(p.versions)
            /\ \A j \in DOMAIN p.versions : p.versions[j].ver \in Int /\ p.versions[j].key \in Nat
  /\ \A l \in DOMAIN Directories :
       /\ IsSequence(Directories[l])
       /\ \A k \in DOMAIN Directories[l] :
            LET p == Directories[l][k] IN
            /\ p.category \in Nat /\ IsSequence(p.files)
            /\ \A j \in DOMAIN p.files : p.files[j] \in Int

VARIABLES
  setup,             \* the element of Setups
  key,               \* m_overlay_key of each cache
  overlays,          \* dbheader.countOverlays()
  excluded,          \* the caches erased from the table
  slavemode,         \* the CoreqCaches that are slaves
  err_msg,           \* the CoreqCaches with an error message
  tree,              \* package_tree
  it,                \* the cache whose turn it is
  at,                \* the package of the cachefile or directory that was read last
  dest_cat,          \* the CoreqCaches with a dest_cat that have not got that package yet
  todo,              \* the categories that were not read yet
  pkg,               \* the package that is being read
  file,              \* how many of its versions or files were read
  have_onetime_info,
  reported,          \* history: the caches an error was printed for
  executed,          \* history: the packages an ebuild was executed for
  pc

given == <<setup>>
coreq == <<slavemode, err_msg>>
current == <<pkg, file, have_onetime_info>>
vars == <<given, key, overlays, excluded, coreq, tree, it, at, dest_cat, todo, current, reported,
          executed, pc>>

table == setup.caches
cache == table[it]

(* The CoreqCaches that know about each other. *)
all_coreqcaches == {i \in DOMAIN table : table[i].method = "coreq"}

NoDesc == <<>>
NewPackage == [versions |-> <<>>, desc |-> NoDesc]

Init ==
  /\ setup \in Setups
  /\ key \in [DOMAIN table -> Garbage]
  /\ overlays = 0
  /\ excluded = {}
  /\ slavemode = {}
  /\ err_msg = {}
  /\ tree = [c \in Enabled |-> << >>]
  /\ it = 1
  /\ at = 0
  /\ dest_cat = {}
  /\ todo = {}
  /\ pkg = NewPackage
  /\ file = 0
  /\ have_onetime_info = FALSE
  /\ reported = {}
  /\ executed = {}
  /\ pc = "initialize"

-------------------------------------------------------------------------------
(* update: the first loop *)

(* CacheTable::erase takes the pointer out of the table. The object is not
   deleted, so it stays in all_coreqcaches; its key is never set. *)
initialize ==
  /\ pc = "initialize" /\ it <= Len(table)
  /\ IF cache.label \in setup.exclude
       THEN /\ excluded' = excluded \cup {it}
            /\ UNCHANGED <<key, overlays>>
       ELSE /\ key' = [key EXCEPT ![it] = overlays]
            /\ overlays' = overlays + 1
            /\ UNCHANGED excluded
  /\ it' = it + 1
  /\ UNCHANGED <<given, coreq, tree, at, dest_cat, todo, current, reported, executed, pc>>

initialized ==
  /\ pc = "initialize" /\ it > Len(table)
  /\ it' = 1
  /\ pc' = "cache"
  /\ UNCHANGED <<given, key, overlays, excluded, coreq, tree, at, dest_cat, todo, current, reported,
                 executed>>

(* The turn of the next cache. *)
NextCache == it' = it + 1 /\ pc' = "cache"

Turn == pc = "cache" /\ it <= Len(table) /\ it \notin excluded

(* The excluded caches are not in the table any more. *)
erased ==
  /\ pc = "cache" /\ it \in excluded
  /\ NextCache
  /\ UNCHANGED <<given, key, overlays, excluded, coreq, tree, at, dest_cat, todo, current, reported,
                 executed>>

-------------------------------------------------------------------------------
(* Packages of the tree, and those of the cache whose turn it is *)

Known(c, n) == c \in DOMAIN tree /\ n \in DOMAIN tree[c]

findPackage(c, n) == IF Known(c, n) THEN tree[c][n] ELSE NewPackage

addPackage(c, n, p) ==
  tree' = [tree EXCEPT ![c] = [m \in DOMAIN tree[c] \cup {n} |-> IF m = n THEN p ELSE tree[c][m]]]

Source(i) ==
  IF table[i].method = "coreq" THEN Cachefiles[table[i].file].packages
  ELSE Directories[table[i].label]

source == Source(it)
package == source[at]

(* A version with number ver, read by cache i as the next one of the package;
   from says where it was read. *)
NewVersion(i, ver) == [ver |-> ver, key |-> key[i], from |-> <<i, at, file + 1>>]

(* The one-time information (homepage, licenses and description) that comes with
   version v: in a directory every file has its own, in a cachefile it belongs
   to the whole package, of whichever overlay its versions are. *)
Info(v) ==
  LET i == v.from[1] IN
  IF table[i].method = "coreq" THEN <<table[i].file, v.from[2]>> ELSE v.from

(* Mutation of AddedVersion: the one-time information is that of every version. *)
AddedVersion_always(p, v) ==
  [versions |-> Inserted(p.versions, v), desc |-> Info(v)]

(* addVersion, and what the latest version says of the package. *)
AddedVersion(p, v) ==
  LET versions == Inserted(p.versions, v)
  IN  [versions |-> versions, desc |-> IF IsLatest(versions, v) THEN Info(v) ELSE p.desc]

-------------------------------------------------------------------------------
(* CoreqCache *)

slaves == {i \in all_coreqcaches : table[i].file = cache.file}
cachefile == Cachefiles[cache.file]

(* readCategories of a slave: everything was done at the turn of its master. *)
coreq_slave ==
  /\ Turn /\ it \in all_coreqcaches /\ it \in slavemode
  /\ reported' = IF it \in err_msg THEN reported \cup {it} ELSE reported
  /\ NextCache
  /\ UNCHANGED <<given, key, overlays, excluded, coreq, tree, at, dest_cat, todo, current, executed>>

(* Mutation of set_slaves: a cache may be read by a master and by itself. *)
set_slaves_unset == UNCHANGED slavemode

set_slaves == slavemode' = slavemode \cup (slaves \ {it})

(* The file cannot be opened, or its header not be read: allerrors. *)
coreq_open_fail ==
  /\ Turn /\ it \in all_coreqcaches /\ it \notin slavemode
  /\ set_slaves
  /\ err_msg' = err_msg \cup slaves
  /\ reported' = reported \cup {it}
  /\ NextCache
  /\ UNCHANGED <<given, key, overlays, excluded, tree, at, dest_cat, todo, current, executed>>

(* get_overlaydat: does the header have the overlay that is asked for? *)
get_overlaydat(i) ==
  table[i].overlay \in {"", "*"} \cup Range(cachefile.overlays)

coreq_open ==
  LET failing == {i \in slaves : ~ get_overlaydat(i)} IN
  /\ Turn /\ it \in all_coreqcaches /\ it \notin slavemode
  /\ set_slaves
  /\ err_msg' = (err_msg \ slaves) \cup failing
  /\ reported' = reported \cup (failing \cap {it})
  /\ IF failing = slaves THEN NextCache ELSE pc' = "coreq" /\ UNCHANGED it
  /\ at' = 0
  /\ UNCHANGED <<given, key, overlays, excluded, tree, dest_cat, todo, current, executed>>

(* get_destcat of each slave in turn: a category that is not in the tree may
   be added, and is then there for the slaves after it. *)
adds_category(i) == i \notin err_msg /\ ~ table[i].never_add_categories

get_destcat(i, c) ==
  /\ i \notin err_msg
  /\ \/ c \in DOMAIN tree
     \/ \E j \in slaves : j <= i /\ adds_category(j)

(* The next package of the cachefile: reader.next(), and its category is read.
   It is skipped if no slave wants the category. *)
coreq_package ==
  LET c == source[at + 1].category IN
  /\ pc = "coreq" /\ at < Len(source)
  /\ at' = at + 1
  /\ dest_cat' = {i \in slaves : get_destcat(i, c)}
  /\ tree' = IF c \in DOMAIN tree \/ dest_cat' = {} THEN tree
             ELSE [d \in DOMAIN tree \cup {c} |-> IF d = c THEN << >> ELSE tree[d]]
  /\ pc' = IF dest_cat' = {} THEN "coreq" ELSE "read"
  /\ UNCHANGED <<given, key, overlays, excluded, coreq, it, todo, current, reported, executed>>

(* reader.read() of the whole package. *)
coreq_read ==
  /\ pc = "read"
  /\ pc' = "get_package"
  /\ UNCHANGED <<given, key, overlays, excluded, coreq, tree, it, at, dest_cat, todo, current,
                 reported, executed>>

(* get_package of the slaves one after the other. *)
slave == Min(dest_cat)

get_package ==
  /\ pc = "get_package"
  /\ pkg' = findPackage(package.category, package.name)
  /\ have_onetime_info' = FALSE
  /\ file' = 0
  /\ pc' = "version"
  /\ UNCHANGED <<given, key, overlays, excluded, coreq, tree, it, at, dest_cat, todo, reported,
                 executed>>

(* m_get_overlay: the first overlay of the cachefile with that label. *)
get_overlay(i) ==
  IF table[i].overlay = "" THEN 0
  ELSE Min({k \in DOMAIN cachefile.overlays : cachefile.overlays[k] = table[i].overlay}) - 1

(* The next version of the package, if it is of the overlay that is asked for. *)
coreq_version ==
  LET v == package.versions[file + 1]
      version == NewVersion(slave, v.ver)
      wanted == table[slave].overlay = "*" \/ v.key = get_overlay(slave)
      latest == IsLatest(Inserted(pkg.versions, version), version)
  IN
  /\ pc = "version" /\ file < Len(package.versions)
  /\ pkg' = IF wanted THEN AddedVersion(pkg, version) ELSE pkg
  /\ have_onetime_info' = IF wanted
                            THEN \/ have_onetime_info
                                 \/ Known(package.category, package.name)
                                 \/ latest
                            ELSE have_onetime_info
  /\ file' = file + 1
  /\ UNCHANGED <<given, key, overlays, excluded, coreq, tree, it, at, dest_cat, todo, reported,
                 executed, pc>>

coreq_end_package ==
  /\ pc = "version" /\ file = Len(package.versions)
  /\ IF have_onetime_info THEN addPackage(package.category, package.name, pkg)
     ELSE UNCHANGED tree
  /\ dest_cat' = dest_cat \ {slave}
  /\ pc' = IF dest_cat' = {} THEN "coreq" ELSE "get_package"
  /\ UNCHANGED <<given, key, overlays, excluded, coreq, it, at, todo, current, reported, executed>>

(* The reader may fail at the next package, at its category, at its rest, or
   when it skips it; if that was the last one, it is noticed at the end. *)
ReaderFails == pc \in {"coreq", "read"}

(* Mutation of coreq_error: only the master learns of the error. *)
coreq_error_master ==
  /\ ReaderFails
  /\ err_msg' = err_msg \cup {it}
  /\ reported' = reported \cup {it}
  /\ NextCache
  /\ UNCHANGED <<given, key, overlays, excluded, slavemode, tree, at, dest_cat, todo, current,
                 executed>>

(* allerrors *)
coreq_error ==
  /\ ReaderFails
  /\ err_msg' = err_msg \cup slaves
  /\ reported' = reported \cup {it}
  /\ NextCache
  /\ UNCHANGED <<given, key, overlays, excluded, slavemode, tree, at, dest_cat, todo, current,
                 executed>>

coreq_end ==
  /\ pc = "coreq" /\ at = Len(source)
  /\ NextCache
  /\ UNCHANGED <<given, key, overlays, excluded, coreq, tree, at, dest_cat, todo, current, reported,
                 executed>>

-------------------------------------------------------------------------------
(* ParseCache and MetadataCache: category by category *)

category == Min(todo)

(* The packages of the category that were not read yet. *)
remaining == {k \in DOMAIN source : at < k /\ source[k].category = category}

begin_categories ==
  /\ Turn /\ it \notin all_coreqcaches
  /\ todo' = DOMAIN tree
  /\ at' = 0
  /\ pc' = "package"
  /\ UNCHANGED <<given, key, overlays, excluded, coreq, tree, it, dest_cat, current, reported,
                 executed>>

end_category ==
  /\ pc = "package" /\ todo # {} /\ remaining = {}
  /\ todo' = todo \ {category}
  /\ at' = 0
  /\ UNCHANGED <<given, key, overlays, excluded, coreq, tree, it, dest_cat, current, reported,
                 executed, pc>>

end_categories ==
  /\ pc = "package" /\ todo = {}
  /\ NextCache
  /\ UNCHANGED <<given, key, overlays, excluded, coreq, tree, at, dest_cat, todo, current, reported,
                 executed>>

(* readPackage: a package that other overlays have already is continued. *)
begin_package ==
  /\ pc = "package" /\ todo # {} /\ remaining # {}
  /\ at' = Min(remaining)
  /\ pkg' = findPackage(category, source[at'].name)
  /\ have_onetime_info' = Known(category, source[at'].name)
  /\ file' = 0
  /\ pc' = "file"
  /\ UNCHANGED <<given, key, overlays, excluded, coreq, tree, it, dest_cat, todo, reported, executed>>

MoreFiles == pc = "file" /\ file < Len(package.files)
version == NewVersion(it, package.files[file + 1])
versions == Inserted(pkg.versions, version)

(* Is the one-time information of this version wanted? *)
read_onetime_info == ~ have_onetime_info \/ IsLatest(versions, version)

(* The file has no version that can be parsed. *)
bad_file ==
  /\ MoreFiles
  /\ reported' = reported \cup {it}
  /\ file' = file + 1
  /\ UNCHANGED <<given, key, overlays, excluded, coreq, tree, it, at, dest_cat, todo, pkg,
                 have_onetime_info, executed, pc>>

(* A further cache has newer information than the ebuild, or parse_exec has
   parsed the ebuild and is content with it. *)
parse_file ==
  /\ MoreFiles /\ cache.method = "parse"
  /\ cache.further \/ cache.try_parse
  /\ pkg' = [versions |-> versions, desc |-> IF read_onetime_info THEN Info(version) ELSE pkg.desc]
  /\ have_onetime_info' = TRUE
  /\ file' = file + 1
  /\ UNCHANGED <<given, key, overlays, excluded, coreq, tree, it, at, dest_cat, todo, reported,
                 executed, pc>>

(* parse_exec executes the ebuild, because it has not tried to parse it or is
   not content. What make_cachefile returns is taken for the package whatever
   the version; but only the attempt to parse sets have_onetime_info. *)
exec_file ==
  /\ MoreFiles /\ cache.method = "parse" /\ cache.ebuild
  /\ have_onetime_info' = (have_onetime_info \/ cache.try_parse)
  /\ \E made \in BOOLEAN :
       /\ pkg' = [versions |-> versions,
                  desc |-> IF made \/ (cache.try_parse /\ read_onetime_info)
                             THEN Info(version) ELSE pkg.desc]
       /\ reported' = IF made THEN reported ELSE reported \cup {it}
       /\ executed' = executed \cup {<<package.category, package.name>>}
  /\ file' = file + 1
  /\ UNCHANGED <<given, key, overlays, excluded, coreq, tree, it, at, dest_cat, todo, pc>>

(* MetadataCache::readCategory: the newest version is read completely. *)
metadata_file ==
  /\ MoreFiles /\ cache.method = "metadata"
  /\ pkg' = AddedVersion(pkg, version)
  /\ file' = file + 1
  /\ UNCHANGED <<given, key, overlays, excluded, coreq, tree, it, at, dest_cat, todo,
                 have_onetime_info, reported, executed, pc>>

(* All files were read. ParseCache throws a new package away if nobody has set
   have_onetime_info; MetadataCache added it before it read the first file. *)
end_package ==
  /\ pc = "file" /\ file = Len(package.files)
  /\ IF have_onetime_info \/ cache.method = "metadata"
       THEN addPackage(package.category, package.name, pkg)
       ELSE UNCHANGED tree
  /\ pc' = "package"
  /\ UNCHANGED <<given, key, overlays, excluded, coreq, it, at, dest_cat, todo, current, reported,
                 executed>>

-------------------------------------------------------------------------------
(* All caches were read; then the masks are applied and the tree is written. *)
Done == pc = "cache" /\ it > Len(table)

Next ==
  \/ initialize \/ initialized \/ erased
  \/ coreq_slave \/ coreq_open_fail \/ coreq_open
  \/ coreq_package \/ coreq_read \/ get_package \/ coreq_version \/ coreq_end_package
  \/ coreq_error \/ coreq_end
  \/ begin_categories \/ end_category \/ end_categories
  \/ begin_package \/ bad_file \/ parse_file \/ exec_file \/ metadata_file \/ end_package
  \/ Done /\ UNCHANGED vars

Spec == Init /\ [][Next]_vars

-------------------------------------------------------------------------------
(* Properties *)

Caches == DOMAIN table

(* The versions of the k-th package in the source of cache i. *)
Contents(i, k) ==
  IF table[i].method = "coreq" THEN Source(i)[k].versions ELSE Source(i)[k].files

VerOf(i, k, j) ==
  IF table[i].method = "coreq" THEN Contents(i, k)[j].ver ELSE Contents(i, k)[j]

(* Is version v of a cachefile of the overlay that cache i asks for: of the main
   repository, of any, or of the first one with the label? *)
AskedFor(i, v) ==
  LET labels == Cachefiles[table[i].file].overlays IN
  \/ table[i].overlay = "*"
  \/ table[i].overlay = "" /\ v.key = 0
  \/ /\ table[i].overlay # ""
     /\ v.key + 1 \in DOMAIN labels /\ labels[v.key + 1] = table[i].overlay
     /\ \A k \in 1..v.key : labels[k] # table[i].overlay

(* What cache i should read: the j-th version of the k-th package. *)
IsVersion(i, k, j) == i \in Caches /\ k \in DOMAIN Source(i) /\ j \in DOMAIN Contents(i, k)

Wanted(i, k, j) ==
  /\ IsVersion(i, k, j)
  /\ table[i].method = "coreq" => AskedFor(i, Contents(i, k)[j])

(* Version v of a package n in category c is what its history says. *)
ComesFrom(c, n, v, i, k, j) ==
  /\ v.from = <<i, k, j>> /\ Wanted(i, k, j)
  /\ Source(i)[k].category = c /\ Source(i)[k].name = n /\ VerOf(i, k, j) = v.ver

(* An excluded CoreqCache uses the same cachefile as one that is kept. *)
Shared(i) ==
  /\ i \in excluded /\ table[i].method = "coreq"
  /\ \E j \in Caches \ excluded : table[j].method = "coreq" /\ table[j].file = table[i].file

(* No version of an overlay is added twice: neither by a master and by itself,
   nor by two masters of one cachefile; nothing is added that was not asked
   for, and an overlay that was excluded is not read at all. (Not so if it
   shares its cachefile: cache_table->erase leaves the object in the list of
   the CoreqCaches that know each other.) *)
AddedOnce ==
  \A c \in DOMAIN tree : \A n \in DOMAIN tree[c] :
    LET s == tree[c][n].versions IN
    /\ \A a, b \in DOMAIN s : a # b => s[a].from # s[b].from
    /\ \A a \in DOMAIN s :
         LET i == s[a].from[1] IN
         /\ ComesFrom(c, n, s[a], i, s[a].from[2], s[a].from[3])
         /\ i \in excluded => Shared(i)

(* An overlay for which no error was printed is complete in the tree, as far
   as its categories are known; an error in the common cachefile of several
   overlays is not forgotten for any of them. (Not so for ebuilds that are not
   parsed: a package whose ebuilds were all executed is thrown away.) *)
NothingLost ==
  Done => \A i \in Caches \ (excluded \cup reported) :
            \A k \in DOMAIN Source(i) : \A j \in DOMAIN Contents(i, k) :
    LET c == Source(i)[k].category
        s == findPackage(c, Source(i)[k].name).versions
    IN  Wanted(i, k, j) /\ c \in Enabled /\ (table[i].method = "parse" => table[i].try_parse) =>
          \E a \in DOMAIN s : s[a].from = <<i, k, j>>

(* The description of a package is the one that came with its latest version of
   all overlays, in whatever order and by whatever method they were read,
   unless one of its ebuilds was executed: that of the ebuild or of its
   metadata, or, if the version was read from a cachefile, that of the package
   there. (The latter need not be the one of the version: it is of the latest
   version that the cachefile has, perhaps of an overlay not asked for.) *)
LatestDescribes ==
  \A c \in DOMAIN tree : \A n \in DOMAIN tree[c] :
    tree[c][n].versions # <<>> /\ <<c, n>> \notin executed =>
      tree[c][n].desc = Info(Last(tree[c][n].versions))

================================================================================

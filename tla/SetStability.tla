------------------------------ MODULE SetStability -----------------------------
(***************************************************************************)
(* The mask and keyword flags of one package (corepkg/set_stability.cc,    *)
(* class CorePkgSettings and CorePkgUserConfig, Package and Version).      *)
(*                                                                         *)
(* A version has the flags of one setting at a time: those of the          *)
(* cachefile, of the profile, or of the user's configuration as well.      *)
(* Searching and printing switch between them again and again.  Whatever   *)
(* was calculated once is saved under an index in the version and taken    *)
(* from there the next time; calc_version_flags even guesses the index.    *)
(*                                                                         *)
(* A flag stands for the configuration it comes from, so that two settings *)
(* never agree by chance.                                                  *)
(***************************************************************************)
EXTENDS Naturals

CONSTANTS
  NumVersions,    \* how many versions the package has
  Configurations, \* what the configuration files and options may be
  UNSAVED         \* no flags are saved

Versions == 1..NumVersions

(* enum SavedMaskIndex, SavedKeyIndex and SavedEffectiveIndex. *)
SAVEMASK_USER == 0
SAVEMASK_USERFILE == 1
SAVEMASK_USERPROFILE == 2
SAVEMASK_PROFILE == 3
SAVEMASK_FILE == 4
MaskIndex == 0..4

SAVEKEY_USER == 0
SAVEKEY_ACCEPT == 1
SAVEKEY_ARCH == 2
KeyIndex == 0..2

SAVEEFFECTIVE_USERPROFILE == 0
SAVEEFFECTIVE_PROFILE == 1
EffectiveIndex == 0..1

(* Where flags come from, and the keywords of a version: those of the ebuild,
   or changed by package.keywords and package.accept_keywords of a profile. *)
MaskFlags == SUBSET {"file", "profile", "userprofile", "package.mask"}
Keywords == {"full", "profile", "userprofile"}
KeywordsFlags ==
  [keywords : Keywords \cup {"none"},
   accepted : SUBSET {"ARCH", "ACCEPT_KEYWORDS", "profile", "package.accept_keywords"}]

(* local, always_accept_keywords and filemask_is_profile are the arguments of
   the constructor SetStability; filemask_is_profile is true for the old
   packages of coreq-diff only.
   user_profile: there is a user profile which differs from the profile.
   changes[x]: the versions whose keywords the profile x changes; accepts: those
   for which it does so by package.accept_keywords, too.
   sets, package_mask, package_accept_keywords: the versions which that part of
   the user's configuration applies to. *)
ConfigurationType ==
  [local : BOOLEAN, filemask_is_profile : BOOLEAN, always_accept_keywords : BOOLEAN,
   user_profile : BOOLEAN, changes : [{"profile", "userprofile"} -> SUBSET Versions],
   accepts : SUBSET Versions, sets : SUBSET Versions,
   package_mask : SUBSET Versions, package_accept_keywords : SUBSET Versions]

ASSUME SetStabilityAssumption ==
  /\ NumVersions \in Nat
  /\ Configurations \subseteq ConfigurationType
  /\ \A flags \in MaskFlags : UNSAVED # flags

VARIABLES
  conf,     \* the configuration
  phase,    \* "match" while packages are searched, then "print"
  masks,    \* maskflags of the versions, their union local_collects, what is saved
  keys,     \* keyflags and effective keywords of the versions, what is saved
  answer    \* what the last printed property is made from

vars == <<conf, phase, masks, keys, answer>>

NoAnswer == [of |-> "nothing"]

--------------------------------------------------------------------------------
(* Saving and restoring. *)

(* What Package::restore_* returns. Their loops have changed the versions before
   the first unsaved one; whoever gets false then sets the flags of all. *)
Saved(flags) == \A v \in Versions : flags[v] # UNSAVED

save_maskflags(m, i) ==
  [m EXCEPT !.saved[i] = m.flags, !.saved_collects[i] = m.collects]

(* local_collects is not restored here. *)
restore_maskflags(m, i) == [m EXCEPT !.flags = m.saved[i]]

save_accepted_effective(k, i) == [k EXCEPT !.saved_effective[i] = k.effective]

restore_accepted_effective(k, i) == [k EXCEPT !.effective = k.saved_effective[i]]

--------------------------------------------------------------------------------
(* Masks. *)

finalize(m) == [m EXCEPT !.collects = UNION {m.flags[v] : v \in Versions}]

(* CascadingProfile::applyMasks: the former flags do not matter. At most
   MASK_WORLD is kept from them, which then is the cachefile's in every setting. *)
applyMasks(m, profile) == finalize([m EXCEPT !.flags = [v \in Versions |-> {profile}]])

CorePkgSettings_setMasks(m, filemask_is_profile) ==
  IF filemask_is_profile THEN restore_maskflags(m, SAVEMASK_FILE)
  ELSE IF Saved(m.saved[SAVEMASK_PROFILE]) THEN restore_maskflags(m, SAVEMASK_PROFILE)
  ELSE save_maskflags(applyMasks(m, "profile"), SAVEMASK_PROFILE)

setProfileMasks(m) ==
  IF Saved(m.saved[SAVEMASK_USERPROFILE]) THEN restore_maskflags(m, SAVEMASK_USERPROFILE)
  ELSE save_maskflags(IF conf.user_profile THEN applyMasks(m, "userprofile")
                      ELSE CorePkgSettings_setMasks(m, FALSE),
                      SAVEMASK_USERPROFILE)

(* m_localmasks.applyMasks and applySetMasks. *)
LocalMasks(m) ==
  [m EXCEPT !.flags = [v \in Versions |-> IF v \in conf.package_mask
                                          THEN @[v] \cup {"package.mask"} ELSE @[v]]]

UserMaskIndex(filemask_is_profile) ==
  IF filemask_is_profile THEN SAVEMASK_USERFILE ELSE SAVEMASK_USER

(* Mutation of CorePkgUserConfig_setMasks: no finalize. *)
CorePkgUserConfig_setMasks_unfinalized(m, filemask_is_profile) ==
  LET i == UserMaskIndex(filemask_is_profile) IN
  IF Saved(m.saved[i]) THEN restore_maskflags(m, i)
  ELSE save_maskflags(LocalMasks(
         IF filemask_is_profile THEN restore_maskflags(m, SAVEMASK_FILE)
         ELSE setProfileMasks(m)), i)

(* The redundancy checks of -T never ask for keywords here, so that saved flags
   are always used. *)
CorePkgUserConfig_setMasks(m, filemask_is_profile) ==
  LET i == UserMaskIndex(filemask_is_profile) IN
  IF Saved(m.saved[i]) THEN restore_maskflags(m, i)
  ELSE save_maskflags(finalize(LocalMasks(
         IF filemask_is_profile THEN restore_maskflags(m, SAVEMASK_FILE)
         ELSE setProfileMasks(m))), i)

setMasks(m, get_local, filemask_is_profile) ==
  IF get_local THEN CorePkgUserConfig_setMasks(m, filemask_is_profile)
  ELSE CorePkgSettings_setMasks(m, filemask_is_profile)

--------------------------------------------------------------------------------
(* Keywords. *)

applyKeywords(k, profile) ==
  [k EXCEPT !.effective = [v \in Versions |->
     IF v \in conf.changes[profile] THEN profile ELSE "full"]]

get_effective_keywords_profile(k) ==
  IF Saved(k.saved_effective[SAVEEFFECTIVE_PROFILE])
  THEN restore_accepted_effective(k, SAVEEFFECTIVE_PROFILE)
  ELSE save_accepted_effective(applyKeywords(k, "profile"), SAVEEFFECTIVE_PROFILE)

(* Mutation of get_effective_keywords_userprofile: restores what was saved for
   the profile. *)
get_effective_keywords_userprofile_profile(k) ==
  IF Saved(k.saved_effective[SAVEEFFECTIVE_PROFILE])
  THEN restore_accepted_effective(k, SAVEEFFECTIVE_PROFILE)
  ELSE save_accepted_effective(IF conf.user_profile THEN applyKeywords(k, "userprofile")
                               ELSE get_effective_keywords_profile(k),
                               SAVEEFFECTIVE_USERPROFILE)

get_effective_keywords_userprofile(k) ==
  IF Saved(k.saved_effective[SAVEEFFECTIVE_USERPROFILE])
  THEN restore_accepted_effective(k, SAVEEFFECTIVE_USERPROFILE)
  ELSE save_accepted_effective(IF conf.user_profile THEN applyKeywords(k, "userprofile")
                               ELSE get_effective_keywords_profile(k),
                               SAVEEFFECTIVE_USERPROFILE)

Flags(keywords, accepted) == [keywords |-> keywords, accepted |-> accepted]

(* set_keyflags(accept_set) for each version. *)
ArchFlags(k, always_accept_keywords) ==
  [v \in Versions |-> Flags(k.effective[v],
                            {IF always_accept_keywords THEN "ACCEPT_KEYWORDS" ELSE "ARCH"})]

(* Mutation of NonlocalKeyIndex: one index for both sets. *)
NonlocalKeyIndex_one(always_accept_keywords) == SAVEKEY_USER

NonlocalKeyIndex(always_accept_keywords) ==
  IF always_accept_keywords THEN SAVEKEY_ACCEPT ELSE SAVEKEY_ARCH

CorePkgSettings_setKeyflags(k, always_accept_keywords) ==
  LET i == NonlocalKeyIndex(always_accept_keywords)
      Calculated(e) ==
        [e EXCEPT !.flags = ArchFlags(e, always_accept_keywords),
                  !.saved[i] = ArchFlags(e, always_accept_keywords)]
  IN IF Saved(k.saved[i]) THEN [k EXCEPT !.flags = k.saved[i]]
     ELSE Calculated(get_effective_keywords_profile(k))

(* Something is added to ACCEPT_KEYWORDS by a profile or a set. *)
Added(e, v) == (e.effective[v] # "full" /\ v \in conf.accepts) \/ v \in conf.sets

UserFlags(e) ==
  [v \in Versions |-> Flags(e.effective[v],
     {"ACCEPT_KEYWORDS"}
       \cup (IF Added(e, v) THEN {"profile"} ELSE {})
       \cup (IF v \in conf.package_accept_keywords
             THEN {"package.accept_keywords"} ELSE {}))]

(* What has only the defaults is also saved as SAVEKEY_ACCEPT, for each version
   on its own, before package.accept_keywords is applied. *)
DefaultsSaved(e) ==
  [v \in Versions |-> IF Added(e, v) THEN e.saved[SAVEKEY_ACCEPT][v]
                      ELSE Flags(e.effective[v], {"ACCEPT_KEYWORDS"})]

UserSaved(e) ==
  [e.saved EXCEPT ![SAVEKEY_ACCEPT] = DefaultsSaved(e), ![SAVEKEY_USER] = UserFlags(e)]

(* check: the call is a redundancy check of -T; it recalculates always. *)
CorePkgUserConfig_setKeyflags(k, check) ==
  LET Calculated(e) == [e EXCEPT !.flags = UserFlags(e), !.saved = UserSaved(e)]
  IN IF ~check /\ Saved(k.saved[SAVEKEY_USER]) THEN [k EXCEPT !.flags = k.saved[SAVEKEY_USER]]
     ELSE Calculated(get_effective_keywords_userprofile(k))

setKeyflags(k, get_local, always_accept_keywords) ==
  IF get_local THEN CorePkgUserConfig_setKeyflags(k, FALSE)
  ELSE CorePkgSettings_setKeyflags(k, always_accept_keywords)

(* Package::restore_keyflags, the first thing setKeyflags does, takes
   local_collects from saved_collects of the key's index, saved or not. *)
restore_collects(m, get_local, always_accept_keywords) ==
  [m EXCEPT !.collects = m.saved_collects[
     IF get_local THEN SAVEKEY_USER ELSE NonlocalKeyIndex(always_accept_keywords)]]

--------------------------------------------------------------------------------
(* The flags of a package that PackageReader just has read. *)
Init ==
  /\ conf \in Configurations
  /\ phase = "match"
  /\ masks = [flags |-> [v \in Versions |-> {"file"}],
              collects |-> UNION {{"file"} : v \in Versions},
              saved |-> [i \in MaskIndex |-> [v \in Versions |->
                           IF i = SAVEMASK_FILE THEN {"file"} ELSE UNSAVED]],
              saved_collects |-> [i \in MaskIndex |->
                           IF i = SAVEMASK_FILE THEN UNION {{"file"} : v \in Versions} ELSE {}]]
  /\ keys = [flags |-> [v \in Versions |-> Flags("none", {})],
             effective |-> [v \in Versions |-> "full"],
             saved |-> [i \in KeyIndex |-> [v \in Versions |-> UNSAVED]],
             saved_effective |-> [i \in EffectiveIndex |-> [v \in Versions |-> UNSAVED]]]
  /\ answer = NoAnswer

(* SetStability::set_stability of an object with that filemask_is_profile. *)
set_stability(get_local, filemask_is_profile) ==
  \E m \in {setMasks(masks, get_local, filemask_is_profile)} :
    /\ masks' = restore_collects(m, get_local, conf.always_accept_keywords)
    /\ keys' = setKeyflags(keys, get_local, conf.always_accept_keywords)

(* PackageTest: --upgrade, --stable, --testing+ and the like. *)
match_stability(get_local) ==
  /\ phase = "match"
  /\ ~conf.filemask_is_profile
  /\ set_stability(get_local, FALSE)
  /\ answer' = NoAnswer
  /\ UNCHANGED <<conf, phase>>

(* PackageTest: -T, which calls what its options ask for and may break off
   after each of the checks. *)
match_obsolete(check_masks, check_keywords, installed) ==
  /\ phase = "match"
  /\ ~conf.filemask_is_profile
  /\ \E m \in {IF check_masks \/ installed THEN CorePkgUserConfig_setMasks(masks, FALSE)
               ELSE masks},
       k \in {IF check_keywords THEN CorePkgUserConfig_setKeyflags(keys, TRUE) ELSE keys} :
       /\ masks' = IF installed THEN restore_collects(m, TRUE, FALSE) ELSE m
       /\ keys' = IF installed THEN CorePkgUserConfig_setKeyflags(k, FALSE) ELSE k
  /\ answer' = NoAnswer
  /\ UNCHANGED <<conf, phase>>

(* The package is going to be printed: the main loop of coreq, and
   DiffReaders::doread_old and doread_new. *)
print_package ==
  /\ phase = "match"
  /\ set_stability(conf.local, conf.filemask_is_profile)
  /\ phase' = "print"
  /\ answer' = NoAnswer
  /\ UNCHANGED conf

(* Mutation of PackageSave_restore: only the keywords are restored. *)
PackageSave_restore_keys(m, k) ==
  /\ masks' = m
  /\ keys' = [k EXCEPT !.flags = keys.flags]

(* PackageSave: maskflags and keyflags are as before, everything else is not. *)
PackageSave_restore(m, k) ==
  /\ masks' = [m EXCEPT !.flags = masks.flags]
  /\ keys' = [k EXCEPT !.flags = keys.flags]

(* LocalCopy: another setting for the time of an upgrade recommendation. The
   formats of coreq-diff for new packages are applied to old ones, too. *)
recommend(get_local, filemask_is_profile) ==
  /\ phase = "print"
  /\ filemask_is_profile => conf.filemask_is_profile
  /\ \E m \in {setMasks(masks, get_local, filemask_is_profile)},
       k \in {setKeyflags(keys, get_local, conf.always_accept_keywords)} :
       PackageSave_restore(restore_collects(m, get_local, conf.always_accept_keywords), k)
  /\ answer' = NoAnswer
  /\ UNCHANGED <<conf, phase>>

keyword_index(get_local) ==
  IF get_local \/ conf.always_accept_keywords THEN SAVEKEY_ACCEPT ELSE SAVEKEY_ARCH

(* Mutation of mask_index: the index of the user's profile in any case. *)
mask_index_userprofile(get_local, filemask_is_profile) ==
  IF filemask_is_profile THEN SAVEMASK_FILE ELSE SAVEMASK_USERPROFILE

mask_index(get_local, filemask_is_profile) ==
  IF filemask_is_profile THEN SAVEMASK_FILE
  ELSE IF get_local THEN SAVEMASK_USERPROFILE ELSE SAVEMASK_PROFILE

Answer(get_local, filemask_is_profile, v, mask, key) ==
  [of |-> "flags", local |-> get_local, filemask_is_profile |-> filemask_is_profile,
   version |-> v, mask |-> mask, key |-> key]

(* calc_version_flags, if both flags are saved under the guessed indices. *)
calc_version_flags_saved(get_local, filemask_is_profile, v) ==
  \E mi \in {mask_index(get_local, filemask_is_profile)}, ki \in {keyword_index(get_local)} :
    /\ masks.saved[mi][v] # UNSAVED
    /\ keys.saved[ki][v] # UNSAVED
    /\ answer' = Answer(get_local, filemask_is_profile, v, masks.saved[mi][v], keys.saved[ki][v])
    /\ UNCHANGED <<masks, keys>>

(* calc_version_flags, if one of them is not: calculate and go back. *)
calc_version_flags_calculate(get_local, filemask_is_profile, v) ==
  /\ \/ masks.saved[mask_index(get_local, filemask_is_profile)][v] = UNSAVED
     \/ keys.saved[keyword_index(get_local)][v] = UNSAVED
  /\ \E m \in {setMasks(masks, get_local, filemask_is_profile)},
       k \in {setKeyflags(keys, get_local, conf.always_accept_keywords)} :
       /\ answer' = Answer(get_local, filemask_is_profile, v, m.flags[v], k.flags[v])
       /\ PackageSave_restore(restore_collects(m, get_local, conf.always_accept_keywords), k)

(* Formats and XML ask for the flags without the user's configuration, the
   protobuf output of coreq for both. *)
calc_version_flags(get_local, filemask_is_profile, v) ==
  /\ phase = "print"
  /\ filemask_is_profile => conf.filemask_is_profile
  /\ get_local => ~conf.filemask_is_profile
  /\ \/ calc_version_flags_saved(get_local, filemask_is_profile, v)
     \/ calc_version_flags_calculate(get_local, filemask_is_profile, v)
  /\ UNCHANGED <<conf, phase>>

(* The properties keywords* and ekeywords* of the formats. *)
VER_VERSIONKEYWORDSS(v) ==
  /\ phase = "print"
  /\ \E k \in {get_effective_keywords_userprofile(keys)} :
       /\ keys' = k
       /\ answer' = [of |-> "keywords", version |-> v, keywords |-> k.effective[v]]
  /\ UNCHANGED <<conf, phase, masks>>

Next ==
  \/ \E get_local \in BOOLEAN : match_stability(get_local)
  \/ \E m, k, i \in BOOLEAN : match_obsolete(m, k, i)
  \/ print_package
  \/ \E get_local, f \in BOOLEAN : recommend(get_local, f)
  \/ \E get_local, f \in BOOLEAN, v \in Versions : calc_version_flags(get_local, f, v)
  \/ \E v \in Versions : VER_VERSIONKEYWORDSS(v)

Spec == Init /\ [][Next]_vars

--------------------------------------------------------------------------------
(* What the flags are when nothing is saved: the configuration files decide. *)

UserProfile == IF conf.user_profile THEN "userprofile" ELSE "profile"

TrueMask(get_local, filemask_is_profile, v) ==
  {IF filemask_is_profile THEN "file" ELSE IF get_local THEN UserProfile ELSE "profile"}
    \cup (IF get_local /\ v \in conf.package_mask THEN {"package.mask"} ELSE {})

TrueKeywords(profile, v) == IF v \in conf.changes[profile] THEN profile ELSE "full"

TrueUserKey(v) ==
  [keywords |-> TrueKeywords(UserProfile, v),
   accepted |-> {"ACCEPT_KEYWORDS"}
     \cup (IF v \in conf.sets \cup (conf.accepts \cap conf.changes[UserProfile])
           THEN {"profile"} ELSE {})
     \cup (IF v \in conf.package_accept_keywords THEN {"package.accept_keywords"} ELSE {})]

TrueKey(get_local, v) ==
  IF get_local THEN TrueUserKey(v)
  ELSE [keywords |-> TrueKeywords("profile", v),
        accepted |-> {IF conf.always_accept_keywords THEN "ACCEPT_KEYWORDS" ELSE "ARCH"}]

(* CorePkgUserConfig::setKeyflags saves under SAVEKEY_ACCEPT what it calculated
   with the keywords of the user's profile, and the setting without the user's
   configuration takes it from there. *)
SameKeywords ==
  \A v \in Versions : TrueKeywords("profile", v) = TrueKeywords(UserProfile, v)

KeysMixed == conf.always_accept_keywords /\ ~SameKeywords

--------------------------------------------------------------------------------
MaskRecord ==
  [flags : [Versions -> MaskFlags], collects : MaskFlags,
   saved : [MaskIndex -> [Versions -> MaskFlags \cup {UNSAVED}]],
   saved_collects : [MaskIndex -> MaskFlags]]

KeyRecord ==
  [flags : [Versions -> KeywordsFlags], effective : [Versions -> Keywords],
   saved : [KeyIndex -> [Versions -> KeywordsFlags \cup {UNSAVED}]],
   saved_effective : [EffectiveIndex -> [Versions -> Keywords \cup {UNSAVED}]]]

(* Every saved flag is a flag, and what is restored was saved. *)
TypeOK ==
  /\ conf \in Configurations
  /\ phase \in {"match", "print"}
  /\ masks \in MaskRecord
  /\ keys \in KeyRecord

(* Whatever was asked for while searching or printing, a version is printed
   with the masks of the setting chosen for printing. *)
PrintsChosenMasks ==
  phase = "print" =>
    \A v \in Versions : masks.flags[v] = TrueMask(conf.local, conf.filemask_is_profile, v)

(* The same for the keywords, except for the setting without the user's
   configuration when ALWAYS_ACCEPT_KEYWORDS mixes the profiles. *)
PrintsChosenKeys ==
  phase = "print" /\ (conf.local \/ ~KeysMixed) =>
    \A v \in Versions : keys.flags[v] = TrueKey(conf.local, v)

(* "Masked without the user's configuration?": the index that calc_version_flags
   guesses gives what a calculation gives, again except for mixed keywords. *)
AnswersNonlocal ==
  answer.of = "flags" /\ ~answer.local =>
    /\ answer.mask = TrueMask(FALSE, answer.filemask_is_profile, answer.version)
    /\ KeysMixed \/ answer.key = TrueKey(FALSE, answer.version)

(* Effective keywords are printed as the user's profile makes them, though the
   settings leave those of different profiles in the version. *)
KeywordsOfUserProfile ==
  answer.of = "keywords" =>
    answer.keywords = TrueKeywords(UserProfile, answer.version)

(* Package::is_system_package and the like speak of the versions as they are
   printed, if the user's configuration was chosen and nothing else was asked
   for since. The summary is restored with the index of the keywords, which is
   right because SAVEKEY_USER happens to be SAVEMASK_USER. *)
SummaryWhenChosen ==
  [][phase = "match" /\ phase' = "print" /\ conf.local /\ ~conf.filemask_is_profile
     => masks'.collects = UNION {masks'.flags[v] : v \in Versions}]_vars

================================================================================

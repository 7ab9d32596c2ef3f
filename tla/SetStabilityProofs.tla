--------------------------- MODULE SetStabilityProofs --------------------------
(***************************************************************************)
(* Theorems of SetStability for any number of versions and any             *)
(* configuration: whatever is saved under an index is what the             *)
(* configuration says for that index, so that it does not matter which     *)
(* settings were asked for before.                                         *)
(***************************************************************************)
EXTENDS SetStability, TLAPS

(* The masks that belong to an index. *)
MaskAt(i, v) ==
  IF i = SAVEMASK_USER THEN TrueMask(TRUE, FALSE, v)
  ELSE IF i = SAVEMASK_USERFILE THEN TrueMask(TRUE, TRUE, v)
  ELSE IF i = SAVEMASK_USERPROFILE THEN {UserProfile}
  ELSE IF i = SAVEMASK_PROFILE THEN {"profile"}
  ELSE {"file"}

(* The summary that is saved with the user's masks is the one of these masks. *)
SummarySaved(m) ==
  Saved(m.saved[SAVEMASK_USER]) =>
    m.saved_collects[SAVEMASK_USER] = UNION {m.saved[SAVEMASK_USER][v] : v \in Versions}

(* Nothing wrong is saved, and the masks of the cachefile always are. *)
MasksSaved(m) ==
  /\ m \in MaskRecord
  /\ \A i \in MaskIndex, v \in Versions : m.saved[i][v] \in {UNSAVED, MaskAt(i, v)}
  /\ Saved(m.saved[SAVEMASK_FILE])
  /\ SummarySaved(m)

(* All versions have the masks that belong to an index. *)
HasMasks(m, i) == \A v \in Versions : m.flags[v] = MaskAt(i, v)

--------------------------------------------------------------------------------
(* Masks. *)

LEMMA MaskAtType ==
  ASSUME NEW i \in MaskIndex, NEW v \in Versions PROVE MaskAt(i, v) \in MaskFlags
  BY DEF MaskAt, TrueMask, UserProfile, MaskFlags

LEMMA RestoreMasks ==
  ASSUME NEW m, MasksSaved(m), NEW i \in MaskIndex, Saved(m.saved[i])
  PROVE  MasksSaved(restore_maskflags(m, i)) /\ HasMasks(restore_maskflags(m, i), i)
<1> DEFINE n == restore_maskflags(m, i)
<1>1. \A v \in Versions : m.saved[i][v] = MaskAt(i, v)
  BY DEF MasksSaved, Saved
<1>2. m.saved[i] \in [Versions -> MaskFlags]
  BY <1>1, MaskAtType DEF MasksSaved, MaskRecord
<1>3. /\ n \in MaskRecord /\ n.saved = m.saved /\ n.flags = m.saved[i]
      /\ n.saved_collects = m.saved_collects
  BY <1>2 DEF restore_maskflags, MasksSaved, MaskRecord
<1> QED
  BY <1>1, <1>3 DEF MasksSaved, SummarySaved, HasMasks

LEMMA SaveMasks ==
  ASSUME NEW m, MasksSaved(m), NEW i \in MaskIndex, HasMasks(m, i),
         i = SAVEMASK_USER => m.collects = UNION {m.flags[v] : v \in Versions}
  PROVE  MasksSaved(save_maskflags(m, i)) /\ HasMasks(save_maskflags(m, i), i)
<1> DEFINE n == save_maskflags(m, i)
<1>1. /\ n \in MaskRecord /\ n.flags = m.flags /\ n.saved = [m.saved EXCEPT ![i] = m.flags]
      /\ n.saved_collects = [m.saved_collects EXCEPT ![i] = m.collects]
  BY DEF save_maskflags, MasksSaved, MaskRecord
<1>2. ASSUME NEW j \in MaskIndex, NEW v \in Versions
      PROVE  n.saved[j][v] \in {UNSAVED, MaskAt(j, v)}
  BY <1>1 DEF MasksSaved, MaskRecord, HasMasks
<1>3. ASSUME NEW v \in Versions PROVE n.saved[SAVEMASK_FILE][v] # UNSAVED
  <2>1. m.saved[SAVEMASK_FILE][v] # UNSAVED /\ SAVEMASK_FILE \in MaskIndex
    BY DEF MasksSaved, Saved, SAVEMASK_FILE, MaskIndex
  <2>2. m.saved[SAVEMASK_FILE][v] = MaskAt(SAVEMASK_FILE, v)
    BY <2>1 DEF MasksSaved
  <2>3. n.saved[SAVEMASK_FILE][v] = MaskAt(SAVEMASK_FILE, v)
    BY <1>1, <2>1, <2>2 DEF MasksSaved, MaskRecord, HasMasks
  <2> QED
    BY <2>1, <2>2, <2>3
<1>4. SummarySaved(n)
  <2>1. SAVEMASK_USER \in MaskIndex /\ m \in MaskRecord
    BY DEF SAVEMASK_USER, MaskIndex, MasksSaved
  <2>2. CASE i = SAVEMASK_USER
    BY <1>1, <2>1, <2>2 DEF SummarySaved, MaskRecord
  <2>3. CASE i # SAVEMASK_USER
    <3>1. /\ n.saved[SAVEMASK_USER] = m.saved[SAVEMASK_USER]
          /\ n.saved_collects[SAVEMASK_USER] = m.saved_collects[SAVEMASK_USER]
      BY <1>1, <2>1, <2>3 DEF MaskRecord
    <3> QED
      BY <3>1 DEF MasksSaved, SummarySaved
  <2> QED
    BY <2>2, <2>3
<1> QED
  BY <1>1, <1>2, <1>3, <1>4 DEF MasksSaved, HasMasks, Saved

(* finalize only changes local_collects. *)
LEMMA Finalize ==
  ASSUME NEW m, MasksSaved(m), NEW i \in MaskIndex, HasMasks(m, i)
  PROVE  MasksSaved(finalize(m)) /\ HasMasks(finalize(m), i)
<1> DEFINE n == finalize(m)
<1>1. UNION {m.flags[v] : v \in Versions} \in MaskFlags
  BY DEF MasksSaved, MaskRecord, MaskFlags
<1>2. /\ n \in MaskRecord /\ n.flags = m.flags /\ n.saved = m.saved
      /\ n.saved_collects = m.saved_collects
  BY <1>1 DEF finalize, MasksSaved, MaskRecord
<1> QED
  BY <1>2 DEF MasksSaved, SummarySaved, HasMasks

LEMMA ApplyMasks ==
  ASSUME NEW m, MasksSaved(m), NEW i \in MaskIndex, NEW profile,
         \A v \in Versions : MaskAt(i, v) = {profile}
  PROVE  MasksSaved(applyMasks(m, profile)) /\ HasMasks(applyMasks(m, profile), i)
<1> DEFINE n == [m EXCEPT !.flags = [v \in Versions |-> {profile}]]
<1>1. [v \in Versions |-> {profile}] \in [Versions -> MaskFlags]
  BY MaskAtType
<1>2. /\ n \in MaskRecord /\ n.saved = m.saved /\ n.flags = [v \in Versions |-> {profile}]
      /\ n.saved_collects = m.saved_collects
  BY <1>1 DEF MasksSaved, MaskRecord
<1>3. MasksSaved(n) /\ HasMasks(n, i)
  BY <1>2 DEF MasksSaved, SummarySaved, HasMasks
<1> QED
  BY <1>3, Finalize DEF applyMasks

(* The settings without the user's configuration. *)
LEMMA SetMasksProfile ==
  ASSUME NEW m, MasksSaved(m)
  PROVE  /\ MasksSaved(CorePkgSettings_setMasks(m, FALSE))
         /\ HasMasks(CorePkgSettings_setMasks(m, FALSE), SAVEMASK_PROFILE)
<1>1. /\ SAVEMASK_PROFILE \in MaskIndex \ {SAVEMASK_USER}
      /\ \A v \in Versions : MaskAt(SAVEMASK_PROFILE, v) = {"profile"}
  BY DEF SAVEMASK_PROFILE, MaskIndex, MaskAt, SAVEMASK_USER, SAVEMASK_USERFILE,
         SAVEMASK_USERPROFILE
<1>2. CASE Saved(m.saved[SAVEMASK_PROFILE])
  BY <1>1, <1>2, RestoreMasks DEF CorePkgSettings_setMasks
<1>3. CASE ~Saved(m.saved[SAVEMASK_PROFILE])
  <2>1. /\ MasksSaved(applyMasks(m, "profile"))
        /\ HasMasks(applyMasks(m, "profile"), SAVEMASK_PROFILE)
    BY <1>1, ApplyMasks
  <2> QED
    BY <1>1, <1>3, <2>1, SaveMasks DEF CorePkgSettings_setMasks
<1> QED
  BY <1>2, <1>3

LEMMA RestoreFile ==
  ASSUME NEW m, MasksSaved(m)
  PROVE  /\ MasksSaved(restore_maskflags(m, SAVEMASK_FILE))
         /\ HasMasks(restore_maskflags(m, SAVEMASK_FILE), SAVEMASK_FILE)
<1>1. SAVEMASK_FILE \in MaskIndex /\ Saved(m.saved[SAVEMASK_FILE])
  BY DEF SAVEMASK_FILE, MaskIndex, MasksSaved
<1> QED
  BY <1>1, RestoreMasks

(* If there is no user profile the masks of the profile are those of the user's
   profile. *)
LEMMA SetProfileMasks ==
  ASSUME NEW m, MasksSaved(m)
  PROVE  MasksSaved(setProfileMasks(m)) /\ HasMasks(setProfileMasks(m), SAVEMASK_USERPROFILE)
<1> DEFINE i == SAVEMASK_USERPROFILE
           n == IF conf.user_profile THEN applyMasks(m, "userprofile")
                ELSE CorePkgSettings_setMasks(m, FALSE)
<1>1. /\ i \in MaskIndex \ {SAVEMASK_USER}
      /\ \A v \in Versions : MaskAt(i, v) = {UserProfile}
  BY DEF MaskIndex, MaskAt, SAVEMASK_USER, SAVEMASK_USERFILE, SAVEMASK_USERPROFILE
<1>2. CASE Saved(m.saved[i])
  BY <1>1, <1>2, RestoreMasks DEF setProfileMasks
<1>3. CASE ~Saved(m.saved[i])
  <2>1. CASE conf.user_profile
    <3>1. \A v \in Versions : MaskAt(i, v) = {"userprofile"}
      BY <1>1, <2>1 DEF UserProfile
    <3> QED
      BY <1>1, <1>3, <2>1, <3>1, ApplyMasks, SaveMasks DEF setProfileMasks
  <2>2. CASE ~conf.user_profile
    <3>1. \A v \in Versions : MaskAt(i, v) = MaskAt(SAVEMASK_PROFILE, v)
      BY <1>1, <2>2 DEF UserProfile, MaskAt, SAVEMASK_PROFILE, SAVEMASK_USER,
         SAVEMASK_USERFILE, SAVEMASK_USERPROFILE
    <3>2. MasksSaved(n) /\ HasMasks(n, i)
      BY <2>2, <3>1, SetMasksProfile DEF HasMasks
    <3> QED
      BY <1>1, <1>3, <3>2, SaveMasks DEF setProfileMasks
  <2> QED
    BY <2>1, <2>2
<1> QED
  BY <1>2, <1>3

(* package.mask of the user on top of the masks of the cachefile or of the
   user's profile. *)
LEMMA AddLocalMasks ==
  ASSUME NEW m, MasksSaved(m), NEW f \in BOOLEAN,
         HasMasks(m, IF f THEN SAVEMASK_FILE ELSE SAVEMASK_USERPROFILE)
  PROVE  MasksSaved(LocalMasks(m)) /\ HasMasks(LocalMasks(m), UserMaskIndex(f))
<1> DEFINE n == LocalMasks(m)
           flags == [v \in Versions |-> IF v \in conf.package_mask
                                        THEN m.flags[v] \cup {"package.mask"} ELSE m.flags[v]]
<1>1. flags \in [Versions -> MaskFlags]
  BY DEF MasksSaved, MaskRecord, MaskFlags
<1>2. /\ n \in MaskRecord /\ n.saved = m.saved /\ n.flags = flags
      /\ n.saved_collects = m.saved_collects
  BY <1>1 DEF LocalMasks, MasksSaved, MaskRecord
<1>3. ASSUME NEW v \in Versions PROVE flags[v] = MaskAt(UserMaskIndex(f), v)
  <2>1. m.flags[v] = {IF f THEN "file" ELSE UserProfile}
    BY DEF HasMasks, MaskAt, SAVEMASK_USER, SAVEMASK_USERFILE, SAVEMASK_USERPROFILE,
           SAVEMASK_PROFILE, SAVEMASK_FILE
  <2>2. MaskAt(UserMaskIndex(f), v) = TrueMask(TRUE, f, v)
    BY DEF UserMaskIndex, MaskAt, TrueMask, SAVEMASK_USER, SAVEMASK_USERFILE
  <2> QED
    BY <2>1, <2>2 DEF TrueMask
<1> QED
  BY <1>2, <1>3 DEF MasksSaved, SummarySaved, HasMasks

(* The settings with the user's configuration. *)
LEMMA SetMasksUser ==
  ASSUME NEW m, MasksSaved(m), NEW f \in BOOLEAN
  PROVE  /\ MasksSaved(CorePkgUserConfig_setMasks(m, f))
         /\ HasMasks(CorePkgUserConfig_setMasks(m, f), UserMaskIndex(f))
         /\ Saved(CorePkgUserConfig_setMasks(m, f).saved[UserMaskIndex(f)])
<1> DEFINE i == UserMaskIndex(f)
           base == IF f THEN restore_maskflags(m, SAVEMASK_FILE) ELSE setProfileMasks(m)
<1>1. i \in MaskIndex
  BY DEF UserMaskIndex, MaskIndex, SAVEMASK_USER, SAVEMASK_USERFILE
<1>2. CASE Saved(m.saved[i])
  <2>1. CorePkgUserConfig_setMasks(m, f) = restore_maskflags(m, i)
    BY <1>2 DEF CorePkgUserConfig_setMasks
  <2>2. restore_maskflags(m, i).saved = m.saved
    BY DEF restore_maskflags, MasksSaved, MaskRecord
  <2> QED
    BY <1>1, <1>2, <2>1, <2>2, RestoreMasks
<1>3. CASE ~Saved(m.saved[i])
  <2>1. MasksSaved(base) /\ HasMasks(base, IF f THEN SAVEMASK_FILE ELSE SAVEMASK_USERPROFILE)
    BY RestoreFile, SetProfileMasks
  <2>2. MasksSaved(LocalMasks(base)) /\ HasMasks(LocalMasks(base), i)
    BY <2>1, AddLocalMasks
  <2> DEFINE n == finalize(LocalMasks(base))
             o == save_maskflags(n, i)
  <2>3. MasksSaved(n) /\ HasMasks(n, i)
    BY <1>1, <2>2, Finalize
  <2>4. n.collects = UNION {n.flags[v] : v \in Versions}
    BY <2>2 DEF finalize, MasksSaved, MaskRecord
  <2>5. CorePkgUserConfig_setMasks(m, f) = o
    BY <1>3 DEF CorePkgUserConfig_setMasks
  <2> HIDE DEF n
  <2>6. MasksSaved(o) /\ HasMasks(o, i)
    BY <1>1, <2>3, <2>4, SaveMasks
  <2>7. Saved(o.saved[i])
    <3>1. o.saved[i] = n.flags
      BY <1>1, <2>3 DEF save_maskflags, MasksSaved, MaskRecord
    <3>2. \A v \in Versions : n.flags[v] # UNSAVED
      BY <2>3, SetStabilityAssumption DEF MasksSaved, MaskRecord
    <3> QED
      BY <3>1, <3>2 DEF Saved
  <2> QED
    BY <2>5, <2>6, <2>7
<1> QED
  BY <1>2, <1>3

(* Whatever was calculated before, setMasks sets the masks that the
   configuration says. *)
LEMMA SetMasks ==
  ASSUME NEW m, MasksSaved(m), NEW l \in BOOLEAN, NEW f \in BOOLEAN
  PROVE  /\ MasksSaved(setMasks(m, l, f))
         /\ \A v \in Versions : setMasks(m, l, f).flags[v] = TrueMask(l, f, v)
<1>1. CASE l
  <2>1. \A v \in Versions : MaskAt(UserMaskIndex(f), v) = TrueMask(TRUE, f, v)
    BY DEF UserMaskIndex, MaskAt, TrueMask, SAVEMASK_USER, SAVEMASK_USERFILE
  <2> QED
    BY <1>1, <2>1, SetMasksUser DEF setMasks, HasMasks
<1>2. CASE ~l /\ f
  <2>1. \A v \in Versions : MaskAt(SAVEMASK_FILE, v) = TrueMask(FALSE, TRUE, v)
    BY DEF MaskAt, TrueMask, SAVEMASK_USER, SAVEMASK_USERFILE, SAVEMASK_USERPROFILE,
           SAVEMASK_PROFILE, SAVEMASK_FILE
  <2> QED
    BY <1>2, <2>1, RestoreFile DEF setMasks, CorePkgSettings_setMasks, HasMasks
<1>3. CASE ~l /\ ~f
  <2>1. \A v \in Versions : MaskAt(SAVEMASK_PROFILE, v) = TrueMask(FALSE, FALSE, v)
    BY DEF MaskAt, TrueMask, SAVEMASK_USER, SAVEMASK_USERFILE, SAVEMASK_USERPROFILE,
           SAVEMASK_PROFILE
  <2>2. setMasks(m, l, f) = CorePkgSettings_setMasks(m, FALSE)
    BY <1>3 DEF setMasks
  <2> QED
    BY <1>3, <2>1, <2>2, SetMasksProfile DEF HasMasks
<1> QED
  BY <1>1, <1>2, <1>3

LEMMA RestoreCollects ==
  ASSUME NEW m, MasksSaved(m), NEW l, NEW a
  PROVE  /\ MasksSaved(restore_collects(m, l, a))
         /\ restore_collects(m, l, a).flags = m.flags
<1> DEFINE n == restore_collects(m, l, a)
<1>1. PICK i \in MaskIndex : n = [m EXCEPT !.collects = m.saved_collects[i]]
  BY DEF restore_collects, NonlocalKeyIndex, SAVEKEY_USER, SAVEKEY_ACCEPT, SAVEKEY_ARCH, MaskIndex
<1>2. /\ n \in MaskRecord /\ n.saved = m.saved /\ n.flags = m.flags
      /\ n.saved_collects = m.saved_collects
  BY <1>1 DEF MasksSaved, MaskRecord
<1> QED
  BY <1>2 DEF MasksSaved, SummarySaved

--------------------------------------------------------------------------------
(* Keywords. *)

(* The effective keywords and the keyword flags that belong to an index. *)
EffectiveAt(i, v) ==
  TrueKeywords(IF i = SAVEEFFECTIVE_PROFILE THEN "profile" ELSE UserProfile, v)

KeyAt(i, v) ==
  IF i = SAVEKEY_USER THEN TrueUserKey(v)
  ELSE [keywords |-> TrueKeywords("profile", v),
        accepted |-> {IF i = SAVEKEY_ACCEPT THEN "ACCEPT_KEYWORDS" ELSE "ARCH"}]

(* Nothing wrong is saved, except under SAVEKEY_ACCEPT if the profiles differ. *)
KeysSaved(k) ==
  /\ k \in KeyRecord
  /\ \A i \in EffectiveIndex, v \in Versions :
       k.saved_effective[i][v] \in {UNSAVED, EffectiveAt(i, v)}
  /\ \A i \in KeyIndex, v \in Versions :
       i # SAVEKEY_ACCEPT \/ SameKeywords => k.saved[i][v] \in {UNSAVED, KeyAt(i, v)}

HasEffective(k, i) == \A v \in Versions : k.effective[v] = EffectiveAt(i, v)

(* What the calculation of effective keywords does. *)
LEMMA EffectiveType ==
  ASSUME NEW i \in EffectiveIndex, NEW v \in Versions PROVE EffectiveAt(i, v) \in Keywords
  BY DEF EffectiveAt, TrueKeywords, UserProfile, Keywords

LEMMA RestoreEffective ==
  ASSUME NEW k, KeysSaved(k), NEW i \in EffectiveIndex, Saved(k.saved_effective[i])
  PROVE  LET e == restore_accepted_effective(k, i) IN
         KeysSaved(e) /\ HasEffective(e, i) /\ e.saved = k.saved /\ e.flags = k.flags
<1> DEFINE e == restore_accepted_effective(k, i)
<1>1. \A v \in Versions : k.saved_effective[i][v] = EffectiveAt(i, v)
  BY DEF KeysSaved, Saved
<1>2. k.saved_effective[i] \in [Versions -> Keywords]
  BY <1>1, EffectiveType DEF KeysSaved, KeyRecord
<1>3. /\ e \in KeyRecord /\ e.saved = k.saved /\ e.flags = k.flags
      /\ e.saved_effective = k.saved_effective /\ e.effective = k.saved_effective[i]
  BY <1>2 DEF restore_accepted_effective, KeysSaved, KeyRecord
<1> QED
  BY <1>1, <1>3 DEF KeysSaved, HasEffective

LEMMA SaveEffective ==
  ASSUME NEW k, KeysSaved(k), NEW i \in EffectiveIndex, HasEffective(k, i)
  PROVE  LET e == save_accepted_effective(k, i) IN
         KeysSaved(e) /\ HasEffective(e, i) /\ e.saved = k.saved /\ e.flags = k.flags
<1> DEFINE e == save_accepted_effective(k, i)
<1>1. /\ e \in KeyRecord /\ e.saved = k.saved /\ e.flags = k.flags /\ e.effective = k.effective
      /\ e.saved_effective = [k.saved_effective EXCEPT ![i] = k.effective]
  BY DEF save_accepted_effective, KeysSaved, KeyRecord
<1>2. ASSUME NEW j \in EffectiveIndex, NEW v \in Versions
      PROVE  e.saved_effective[j][v] \in {UNSAVED, EffectiveAt(j, v)}
  BY <1>1 DEF KeysSaved, KeyRecord, HasEffective
<1> QED
  BY <1>1, <1>2 DEF KeysSaved, HasEffective

LEMMA ApplyKeywords ==
  ASSUME NEW k, KeysSaved(k), NEW profile \in {"profile", "userprofile"}
  PROVE  LET e == applyKeywords(k, profile) IN
         /\ KeysSaved(e) /\ e.saved = k.saved /\ e.flags = k.flags
         /\ \A v \in Versions : e.effective[v] = TrueKeywords(profile, v)
<1> DEFINE e == applyKeywords(k, profile)
           words == [v \in Versions |-> IF v \in conf.changes[profile] THEN profile ELSE "full"]
<1>1. words \in [Versions -> Keywords]
  BY DEF Keywords
<1>2. /\ e \in KeyRecord /\ e.saved = k.saved /\ e.flags = k.flags /\ e.effective = words
      /\ e.saved_effective = k.saved_effective
  BY <1>1 DEF applyKeywords, KeysSaved, KeyRecord
<1> QED
  BY <1>2 DEF KeysSaved, TrueKeywords

LEMMA EffectiveProfile ==
  ASSUME NEW k, KeysSaved(k)
  PROVE  LET e == get_effective_keywords_profile(k) IN
         KeysSaved(e) /\ HasEffective(e, SAVEEFFECTIVE_PROFILE) /\ e.saved = k.saved /\ e.flags = k.flags
<1> DEFINE i == SAVEEFFECTIVE_PROFILE
           e == applyKeywords(k, "profile")
<1>1. i \in EffectiveIndex
  BY DEF SAVEEFFECTIVE_PROFILE, EffectiveIndex
<1>2. CASE Saved(k.saved_effective[i])
  BY <1>1, <1>2, RestoreEffective DEF get_effective_keywords_profile
<1>3. CASE ~Saved(k.saved_effective[i])
  <2>1. KeysSaved(e) /\ HasEffective(e, i) /\ e.saved = k.saved /\ e.flags = k.flags
    BY ApplyKeywords DEF HasEffective, EffectiveAt
  <2> QED
    BY <1>1, <1>3, <2>1, SaveEffective DEF get_effective_keywords_profile
<1> QED
  BY <1>2, <1>3

LEMMA EffectiveUserProfile ==
  ASSUME NEW k, KeysSaved(k)
  PROVE  LET e == get_effective_keywords_userprofile(k) IN
         KeysSaved(e) /\ HasEffective(e, SAVEEFFECTIVE_USERPROFILE) /\ e.saved = k.saved /\ e.flags = k.flags
<1> DEFINE i == SAVEEFFECTIVE_USERPROFILE
           e == IF conf.user_profile THEN applyKeywords(k, "userprofile")
                ELSE get_effective_keywords_profile(k)
<1>1. i \in EffectiveIndex
  BY DEF SAVEEFFECTIVE_USERPROFILE, EffectiveIndex
<1>2. CASE Saved(k.saved_effective[i])
  BY <1>1, <1>2, RestoreEffective DEF get_effective_keywords_userprofile
<1>3. CASE ~Saved(k.saved_effective[i])
  <2>1. \A v \in Versions : EffectiveAt(i, v) = TrueKeywords(UserProfile, v)
    BY DEF EffectiveAt, SAVEEFFECTIVE_USERPROFILE, SAVEEFFECTIVE_PROFILE
  <2>2. CASE conf.user_profile
    <3>1. KeysSaved(e) /\ HasEffective(e, i) /\ e.saved = k.saved /\ e.flags = k.flags
      BY <2>1, <2>2, ApplyKeywords DEF HasEffective, UserProfile
    <3> QED
      BY <1>1, <1>3, <3>1, SaveEffective DEF get_effective_keywords_userprofile
  <2>3. CASE ~conf.user_profile
    <3>1. KeysSaved(e) /\ HasEffective(e, i) /\ e.saved = k.saved /\ e.flags = k.flags
      BY <2>1, <2>3, EffectiveProfile DEF HasEffective, UserProfile, EffectiveAt
    <3> QED
      BY <1>1, <1>3, <3>1, SaveEffective DEF get_effective_keywords_userprofile
  <2> QED
    BY <2>2, <2>3
<1> QED
  BY <1>2, <1>3

LEMMA KeyAtType ==
  ASSUME NEW i \in KeyIndex, NEW v \in Versions PROVE KeyAt(i, v) \in KeywordsFlags
<1>1. TrueKeywords("profile", v) \in Keywords /\ TrueKeywords(UserProfile, v) \in Keywords
  BY DEF TrueKeywords, UserProfile, Keywords
<1> QED
  BY <1>1 DEF KeyAt, TrueUserKey, KeywordsFlags

(* What is saved for all versions is what belongs to the index. *)
LEMMA RestoreKeys ==
  ASSUME NEW k, KeysSaved(k), NEW i \in KeyIndex, Saved(k.saved[i])
  PROVE  LET n == [k EXCEPT !.flags = k.saved[i]] IN
         /\ KeysSaved(n)
         /\ i # SAVEKEY_ACCEPT \/ SameKeywords => \A v \in Versions : n.flags[v] = KeyAt(i, v)
<1> DEFINE n == [k EXCEPT !.flags = k.saved[i]]
<1>1. k.saved[i] \in [Versions -> KeywordsFlags]
  BY DEF KeysSaved, KeyRecord, Saved
<1>2. /\ n \in KeyRecord /\ n.saved = k.saved /\ n.flags = k.saved[i]
      /\ n.saved_effective = k.saved_effective
  BY <1>1 DEF KeysSaved, KeyRecord
<1>3. i # SAVEKEY_ACCEPT \/ SameKeywords => \A v \in Versions : n.flags[v] = KeyAt(i, v)
  BY <1>2 DEF KeysSaved, Saved
<1> QED
  BY <1>2, <1>3 DEF KeysSaved

(* The settings without the user's configuration. *)
LEMMA SetKeyflagsProfile ==
  ASSUME NEW k, KeysSaved(k), NEW a \in BOOLEAN
  PROVE  LET n == CorePkgSettings_setKeyflags(k, a) IN
         /\ KeysSaved(n)
         /\ ~a \/ SameKeywords =>
              \A v \in Versions : n.flags[v] = KeyAt(NonlocalKeyIndex(a), v)
<1> DEFINE i == NonlocalKeyIndex(a)
           e == get_effective_keywords_profile(k)
           n == [e EXCEPT !.flags = ArchFlags(e, a), !.saved[i] = ArchFlags(e, a)]
<1>1. i \in KeyIndex /\ (i = SAVEKEY_ACCEPT <=> a) /\ i # SAVEKEY_USER
  BY DEF NonlocalKeyIndex, KeyIndex, SAVEKEY_ACCEPT, SAVEKEY_ARCH, SAVEKEY_USER
<1>2. CASE Saved(k.saved[i])
  BY <1>1, <1>2, RestoreKeys DEF CorePkgSettings_setKeyflags
<1>3. CASE ~Saved(k.saved[i])
  <2>1. KeysSaved(e) /\ HasEffective(e, SAVEEFFECTIVE_PROFILE) /\ e.saved = k.saved /\ e.flags = k.flags
    BY EffectiveProfile
  <2>2. ASSUME NEW v \in Versions PROVE ArchFlags(e, a)[v] = KeyAt(i, v)
    <3>1. e.effective[v] = TrueKeywords("profile", v)
      BY <2>1 DEF HasEffective, EffectiveAt
    <3> QED
      BY <1>1, <3>1 DEF ArchFlags, Flags, KeyAt
  <2>3. ArchFlags(e, a) \in [Versions -> KeywordsFlags]
    BY <1>1, <2>2, KeyAtType DEF ArchFlags
  <2>4. /\ n \in KeyRecord /\ n.flags = ArchFlags(e, a)
        /\ n.saved = [e.saved EXCEPT ![i] = ArchFlags(e, a)]
        /\ n.saved_effective = e.saved_effective
    BY <1>1, <2>1, <2>3 DEF KeysSaved, KeyRecord
  <2>5. ASSUME NEW j \in KeyIndex, NEW v \in Versions, j # SAVEKEY_ACCEPT \/ SameKeywords
        PROVE  n.saved[j][v] \in {UNSAVED, KeyAt(j, v)}
    BY <2>1, <2>2, <2>4, <2>5 DEF KeysSaved, KeyRecord
  <2>6. KeysSaved(n) /\ \A v \in Versions : n.flags[v] = KeyAt(i, v)
    BY <2>1, <2>2, <2>4, <2>5 DEF KeysSaved
  <2>7. CorePkgSettings_setKeyflags(k, a) = n
    BY <1>3 DEF CorePkgSettings_setKeyflags
  <2> QED
    BY <2>6, <2>7
<1> QED
  BY <1>2, <1>3

(* The settings with the user's configuration. The defaults that are saved on
   the way belong to SAVEKEY_ACCEPT only if the profiles agree. *)
LEMMA SetKeyflagsUser ==
  ASSUME NEW k, KeysSaved(k), NEW c \in BOOLEAN
  PROVE  LET n == CorePkgUserConfig_setKeyflags(k, c) IN
         KeysSaved(n) /\ \A v \in Versions : n.flags[v] = TrueUserKey(v)
<1> DEFINE e == get_effective_keywords_userprofile(k)
           saved == UserSaved(e)
           n == [e EXCEPT !.flags = UserFlags(e), !.saved = saved]
<1>1. /\ SAVEKEY_USER \in KeyIndex /\ SAVEKEY_ACCEPT \in KeyIndex
      /\ SAVEKEY_USER # SAVEKEY_ACCEPT
      /\ \A v \in Versions : KeyAt(SAVEKEY_USER, v) = TrueUserKey(v)
  BY DEF KeyIndex, SAVEKEY_ACCEPT, SAVEKEY_USER, KeyAt
<1>2. CASE ~c /\ Saved(k.saved[SAVEKEY_USER])
  BY <1>1, <1>2, RestoreKeys DEF CorePkgUserConfig_setKeyflags
<1>3. CASE ~(~c /\ Saved(k.saved[SAVEKEY_USER]))
  <2>1. KeysSaved(e) /\ HasEffective(e, SAVEEFFECTIVE_USERPROFILE) /\ e.saved = k.saved /\ e.flags = k.flags
    BY EffectiveUserProfile
  <2>2. ASSUME NEW v \in Versions
        PROVE  /\ e.effective[v] = TrueKeywords(UserProfile, v)
               /\ e.effective[v] # "full" <=> v \in conf.changes[UserProfile]
    BY <2>1 DEF HasEffective, EffectiveAt, TrueKeywords, UserProfile,
       SAVEEFFECTIVE_USERPROFILE, SAVEEFFECTIVE_PROFILE
  <2>3. ASSUME NEW v \in Versions PROVE UserFlags(e)[v] = TrueUserKey(v)
    <3>1. Added(e, v) <=> v \in conf.sets \cup (conf.accepts \cap conf.changes[UserProfile])
      BY <2>2 DEF Added
    <3> QED
      BY <2>2, <3>1 DEF UserFlags, Flags, TrueUserKey
  <2>4. UserFlags(e) \in [Versions -> KeywordsFlags]
    BY <1>1, <2>3, KeyAtType DEF UserFlags
  <2>5. ASSUME NEW v \in Versions
        PROVE  LET d == DefaultsSaved(e)[v] IN
               /\ d \in KeywordsFlags \cup {UNSAVED}
               /\ SameKeywords => d \in {UNSAVED, KeyAt(SAVEKEY_ACCEPT, v)}
    <3>1. CASE Added(e, v)
      BY <1>1, <2>1, <3>1 DEF DefaultsSaved, KeysSaved, KeyRecord
    <3>2. CASE ~Added(e, v)
      <4>1. e.effective[v] \in Keywords
        BY <2>1 DEF KeysSaved, KeyRecord
      <4>2. SameKeywords => e.effective[v] = TrueKeywords("profile", v)
        BY <2>2 DEF SameKeywords
      <4> QED
        BY <1>1, <3>2, <4>1, <4>2 DEF DefaultsSaved, Flags, KeyAt, KeywordsFlags
    <3> QED
      BY <3>1, <3>2
  <2>6. DefaultsSaved(e) \in [Versions -> KeywordsFlags \cup {UNSAVED}]
    BY <2>5 DEF DefaultsSaved
  <2>7. e.saved \in [KeyIndex -> [Versions -> KeywordsFlags \cup {UNSAVED}]]
    BY <2>1 DEF KeysSaved, KeyRecord
  <2>8. /\ saved \in [KeyIndex -> [Versions -> KeywordsFlags \cup {UNSAVED}]]
        /\ saved[SAVEKEY_USER] = UserFlags(e)
        /\ saved[SAVEKEY_ACCEPT] = DefaultsSaved(e)
        /\ \A j \in KeyIndex \ {SAVEKEY_USER, SAVEKEY_ACCEPT} : saved[j] = e.saved[j]
    BY <1>1, <2>4, <2>6, <2>7 DEF UserSaved
  <2>9. /\ n \in KeyRecord /\ n.flags = UserFlags(e) /\ n.saved = saved
        /\ n.saved_effective = e.saved_effective
    BY <2>1, <2>4, <2>8 DEF KeysSaved, KeyRecord
  <2>10. ASSUME NEW j \in KeyIndex, NEW v \in Versions, j # SAVEKEY_ACCEPT \/ SameKeywords
         PROVE  n.saved[j][v] \in {UNSAVED, KeyAt(j, v)}
    BY <1>1, <2>1, <2>3, <2>5, <2>8, <2>9, <2>10 DEF KeysSaved
  <2>11. KeysSaved(n) /\ \A v \in Versions : n.flags[v] = TrueUserKey(v)
    BY <2>1, <2>3, <2>9, <2>10 DEF KeysSaved
  <2>12. CorePkgUserConfig_setKeyflags(k, c) = n
    BY <1>3 DEF CorePkgUserConfig_setKeyflags
  <2> QED
    BY <2>11, <2>12
<1> QED
  BY <1>2, <1>3

(* Whatever was calculated before, setKeyflags sets the flags that the
   configuration says, unless keywords are mixed. *)
LEMMA SetKeyflags ==
  ASSUME NEW k, KeysSaved(k), NEW l \in BOOLEAN, conf.always_accept_keywords \in BOOLEAN
  PROVE  LET n == setKeyflags(k, l, conf.always_accept_keywords) IN
         /\ KeysSaved(n)
         /\ l \/ ~KeysMixed => \A v \in Versions : n.flags[v] = TrueKey(l, v)
<1> DEFINE a == conf.always_accept_keywords
<1>1. CASE l
  BY <1>1, SetKeyflagsUser DEF setKeyflags, TrueKey
<1>2. CASE ~l
  <2>1. \A v \in Versions : KeyAt(NonlocalKeyIndex(a), v) = TrueKey(FALSE, v)
    BY DEF KeyAt, NonlocalKeyIndex, TrueKey, SAVEKEY_USER, SAVEKEY_ACCEPT, SAVEKEY_ARCH
  <2>2. setKeyflags(k, l, a) = CorePkgSettings_setKeyflags(k, a)
    BY <1>2 DEF setKeyflags
  <2> QED
    BY <1>2, <2>1, <2>2, SetKeyflagsProfile DEF KeysMixed
<1> QED
  BY <1>1, <1>2

--------------------------------------------------------------------------------
(* The invariant: what is saved is right, and so is what was made of it. *)
StabilityInv ==
  /\ conf \in Configurations
  /\ phase \in {"match", "print"}
  /\ MasksSaved(masks)
  /\ KeysSaved(keys)
  /\ PrintsChosenMasks
  /\ PrintsChosenKeys
  /\ AnswersNonlocal
  /\ KeywordsOfUserProfile

LEMMA OptionTypes ==
  ASSUME conf \in Configurations
  PROVE  /\ conf.local \in BOOLEAN /\ conf.filemask_is_profile \in BOOLEAN
         /\ conf.always_accept_keywords \in BOOLEAN
  BY SetStabilityAssumption DEF ConfigurationType

LEMMA InitMasks == Init => MasksSaved(masks)
<1> SUFFICES ASSUME Init PROVE MasksSaved(masks)
  OBVIOUS
<1>1. {"file"} \in MaskFlags /\ {} \in MaskFlags /\ {"file"} # UNSAVED
  BY SetStabilityAssumption DEF MaskFlags
<1>2. UNION {{"file"} : v \in Versions} \in MaskFlags
  BY DEF MaskFlags
<1>3. \A v \in Versions : MaskAt(SAVEMASK_FILE, v) = {"file"}
  BY DEF MaskAt, SAVEMASK_USER, SAVEMASK_USERFILE, SAVEMASK_USERPROFILE,
         SAVEMASK_PROFILE, SAVEMASK_FILE
<1>4. masks \in MaskRecord
  BY <1>1, <1>2 DEF Init, MaskRecord
<1>5. \A i \in MaskIndex, v \in Versions :
        masks.saved[i][v] = IF i = SAVEMASK_FILE THEN {"file"} ELSE UNSAVED
  BY DEF Init
<1>6. SAVEMASK_FILE \in MaskIndex
  BY DEF SAVEMASK_FILE, MaskIndex
<1>7. SummarySaved(masks)
  <2>1. SAVEMASK_USER \in MaskIndex /\ SAVEMASK_USER # SAVEMASK_FILE
    BY DEF SAVEMASK_USER, SAVEMASK_FILE, MaskIndex
  <2>2. masks.saved_collects[SAVEMASK_USER] = {}
    BY <2>1 DEF Init
  <2>3. Saved(masks.saved[SAVEMASK_USER]) => Versions = {}
    BY <1>5, <2>1 DEF Saved
  <2> QED
    BY <2>2, <2>3 DEF SummarySaved
<1> QED
  BY <1>1, <1>3, <1>4, <1>5, <1>6, <1>7 DEF MasksSaved, Saved

LEMMA InitKeys == Init => KeysSaved(keys)
<1> SUFFICES ASSUME Init PROVE KeysSaved(keys)
  OBVIOUS
<1>1. Flags("none", {}) \in KeywordsFlags /\ "full" \in Keywords
  BY DEF Flags, KeywordsFlags, Keywords
<1>2. keys \in KeyRecord
  BY <1>1 DEF Init, KeyRecord
<1>3. /\ \A i \in KeyIndex, v \in Versions : keys.saved[i][v] = UNSAVED
      /\ \A i \in EffectiveIndex, v \in Versions : keys.saved_effective[i][v] = UNSAVED
  BY DEF Init
<1> QED
  BY <1>2, <1>3 DEF KeysSaved

LEMMA StabilityInit == Init => StabilityInv
<1> SUFFICES ASSUME Init PROVE StabilityInv
  OBVIOUS
<1>1. conf \in Configurations /\ phase = "match" /\ answer.of = "nothing"
  BY DEF Init, NoAnswer
<1>2. PrintsChosenMasks /\ PrintsChosenKeys
  BY <1>1 DEF PrintsChosenMasks, PrintsChosenKeys
<1>3. AnswersNonlocal /\ KeywordsOfUserProfile
  BY <1>1 DEF AnswersNonlocal, KeywordsOfUserProfile
<1> QED
  BY <1>1, <1>2, <1>3, InitMasks, InitKeys DEF StabilityInv

(* The configuration never changes, so that what is right before a step is
   right after it. *)
LEMMA SavedKept ==
  ASSUME conf' = conf, MasksSaved(masks'), KeysSaved(keys')
  PROVE  MasksSaved(masks)' /\ KeysSaved(keys)'
<1>1. MasksSaved(masks)'
  BY DEF MasksSaved, SummarySaved, MaskAt, TrueMask, UserProfile
<1>2. KeysSaved(keys)'
  BY DEF KeysSaved, KeyAt, TrueUserKey, TrueKeywords, EffectiveAt, UserProfile, SameKeywords
<1> QED
  BY <1>1, <1>2

LEMMA PrintsKept ==
  ASSUME conf' = conf, StabilityInv, phase' = "print" => phase = "print",
         masks'.flags = masks.flags, keys'.flags = keys.flags
  PROVE  PrintsChosenMasks' /\ PrintsChosenKeys'
<1>1. PrintsChosenMasks'
  BY DEF StabilityInv, PrintsChosenMasks, TrueMask, UserProfile
<1>2. PrintsChosenKeys'
  BY DEF StabilityInv, PrintsChosenKeys, KeysMixed, SameKeywords, TrueKey, TrueUserKey,
         TrueKeywords, UserProfile
<1> QED
  BY <1>1, <1>2

LEMMA NoAnswerKept ==
  ASSUME answer' = NoAnswer PROVE AnswersNonlocal' /\ KeywordsOfUserProfile'
<1>1. answer'.of = "nothing"
  BY DEF NoAnswer
<1> QED
  BY <1>1 DEF AnswersNonlocal, KeywordsOfUserProfile

(* What set_stability makes of masks and keys. *)
LEMMA SettingMasks ==
  ASSUME StabilityInv, NEW l \in BOOLEAN, NEW f \in BOOLEAN
  PROVE  LET m == restore_collects(setMasks(masks, l, f), l, conf.always_accept_keywords) IN
         MasksSaved(m) /\ \A v \in Versions : m.flags[v] = TrueMask(l, f, v)
<1>1. MasksSaved(setMasks(masks, l, f)) /\
      \A v \in Versions : setMasks(masks, l, f).flags[v] = TrueMask(l, f, v)
  BY SetMasks DEF StabilityInv
<1> QED
  BY <1>1, RestoreCollects

LEMMA SettingKeys ==
  ASSUME StabilityInv, NEW l \in BOOLEAN
  PROVE  LET k == setKeyflags(keys, l, conf.always_accept_keywords) IN
         KeysSaved(k) /\ (l \/ ~KeysMixed => \A v \in Versions : k.flags[v] = TrueKey(l, v))
  BY SetKeyflags, OptionTypes DEF StabilityInv

(* PackageSave::restore keeps what is saved and goes back to the flags. *)
LEMMA GoesBack ==
  ASSUME StabilityInv, NEW m, MasksSaved(m), NEW k, KeysSaved(k), PackageSave_restore(m, k)
  PROVE  /\ MasksSaved(masks') /\ masks'.flags = masks.flags
         /\ KeysSaved(keys') /\ keys'.flags = keys.flags
<1>1. masks \in MaskRecord /\ keys \in KeyRecord
  BY DEF StabilityInv, MasksSaved, KeysSaved
<1>2. /\ masks' \in MaskRecord /\ masks'.saved = m.saved /\ masks'.flags = masks.flags
      /\ masks'.saved_collects = m.saved_collects
  BY <1>1 DEF PackageSave_restore, MasksSaved, MaskRecord
<1>3. /\ keys' \in KeyRecord /\ keys'.saved = k.saved /\ keys'.flags = keys.flags
      /\ keys'.saved_effective = k.saved_effective
  BY <1>1 DEF PackageSave_restore, KeysSaved, KeyRecord
<1> QED
  BY <1>2, <1>3 DEF MasksSaved, SummarySaved, KeysSaved

LEMMA MatchStability ==
  ASSUME StabilityInv, NEW l \in BOOLEAN, match_stability(l) PROVE StabilityInv'
<1>1. MasksSaved(masks') /\ KeysSaved(keys')
  BY SettingMasks, SettingKeys DEF match_stability, set_stability
<1>2. conf' = conf /\ phase' = "match" /\ answer' = NoAnswer
  BY DEF match_stability
<1>3. PrintsChosenMasks' /\ PrintsChosenKeys'
  BY <1>2 DEF PrintsChosenMasks, PrintsChosenKeys
<1> QED
  BY <1>1, <1>2, <1>3, SavedKept, NoAnswerKept DEF StabilityInv

LEMMA MatchObsolete ==
  ASSUME StabilityInv, NEW c \in BOOLEAN, NEW d \in BOOLEAN, NEW i \in BOOLEAN,
         match_obsolete(c, d, i)
  PROVE  StabilityInv'
<1> DEFINE m == IF c \/ i THEN CorePkgUserConfig_setMasks(masks, FALSE) ELSE masks
           k == IF d THEN CorePkgUserConfig_setKeyflags(keys, TRUE) ELSE keys
<1>1. MasksSaved(m) /\ KeysSaved(k)
  BY SetMasksUser, SetKeyflagsUser DEF StabilityInv
<1>2. MasksSaved(masks')
  BY <1>1, RestoreCollects DEF match_obsolete
<1>3. KeysSaved(keys')
  <2>1. keys' = IF i THEN CorePkgUserConfig_setKeyflags(k, FALSE) ELSE k
    BY DEF match_obsolete
  <2>2. KeysSaved(CorePkgUserConfig_setKeyflags(k, FALSE))
    BY <1>1, SetKeyflagsUser
  <2> QED
    BY <1>1, <2>1, <2>2
<1>4. conf' = conf /\ phase' = "match" /\ answer' = NoAnswer
  BY DEF match_obsolete
<1>5. PrintsChosenMasks' /\ PrintsChosenKeys'
  BY <1>4 DEF PrintsChosenMasks, PrintsChosenKeys
<1> QED
  BY <1>2, <1>3, <1>4, <1>5, SavedKept, NoAnswerKept DEF StabilityInv

LEMMA PrintPackage ==
  ASSUME StabilityInv, print_package PROVE StabilityInv'
<1> DEFINE l == conf.local
           f == conf.filemask_is_profile
<1>1. l \in BOOLEAN /\ f \in BOOLEAN
  BY OptionTypes DEF StabilityInv
<1>2. conf' = conf /\ phase' = "print" /\ answer' = NoAnswer
  BY DEF print_package
<1>3. MasksSaved(masks') /\ \A v \in Versions : masks'.flags[v] = TrueMask(l, f, v)
  BY <1>1, SettingMasks DEF print_package, set_stability
<1>4. /\ KeysSaved(keys')
      /\ l \/ ~KeysMixed => \A v \in Versions : keys'.flags[v] = TrueKey(l, v)
  BY <1>1, SettingKeys DEF print_package, set_stability
<1>5. PrintsChosenMasks'
  BY <1>2, <1>3 DEF PrintsChosenMasks, TrueMask, UserProfile
<1>6. PrintsChosenKeys'
  BY <1>2, <1>4 DEF PrintsChosenKeys, KeysMixed, SameKeywords, TrueKey, TrueUserKey,
     TrueKeywords, UserProfile
<1> QED
  BY <1>2, <1>3, <1>4, <1>5, <1>6, SavedKept, NoAnswerKept DEF StabilityInv

LEMMA Recommend ==
  ASSUME StabilityInv, NEW l \in BOOLEAN, NEW f \in BOOLEAN, recommend(l, f)
  PROVE  StabilityInv'
<1>1. /\ MasksSaved(masks') /\ masks'.flags = masks.flags
      /\ KeysSaved(keys') /\ keys'.flags = keys.flags
  BY SettingMasks, SettingKeys, GoesBack DEF recommend
<1>2. conf' = conf /\ phase' = phase /\ answer' = NoAnswer
  BY DEF recommend
<1> QED
  BY <1>1, <1>2, SavedKept, PrintsKept, NoAnswerKept DEF StabilityInv

(* The guessed indices are right without the user's configuration. *)
LEMMA GuessedIndex ==
  ASSUME StabilityInv, NEW f \in BOOLEAN, NEW v \in Versions
  PROVE  /\ masks.saved[mask_index(FALSE, f)][v] \in {UNSAVED, TrueMask(FALSE, f, v)}
         /\ ~KeysMixed => keys.saved[keyword_index(FALSE)][v] \in {UNSAVED, TrueKey(FALSE, v)}
<1>1. mask_index(FALSE, f) \in MaskIndex
  BY DEF mask_index, MaskIndex, SAVEMASK_FILE, SAVEMASK_PROFILE
<1>2. MaskAt(mask_index(FALSE, f), v) = TrueMask(FALSE, f, v)
  BY DEF mask_index, MaskAt, TrueMask, SAVEMASK_USER, SAVEMASK_USERFILE,
         SAVEMASK_USERPROFILE, SAVEMASK_PROFILE, SAVEMASK_FILE
<1>3. masks.saved[mask_index(FALSE, f)][v] \in {UNSAVED, TrueMask(FALSE, f, v)}
  BY <1>1, <1>2 DEF StabilityInv, MasksSaved
<1>4. /\ keyword_index(FALSE) \in KeyIndex
      /\ keyword_index(FALSE) = SAVEKEY_ACCEPT <=> conf.always_accept_keywords
      /\ keyword_index(FALSE) # SAVEKEY_USER
  BY DEF keyword_index, KeyIndex, SAVEKEY_ACCEPT, SAVEKEY_ARCH, SAVEKEY_USER
<1>5. KeyAt(keyword_index(FALSE), v) = TrueKey(FALSE, v)
  BY <1>4 DEF KeyAt, TrueKey
<1>6. ~KeysMixed => keys.saved[keyword_index(FALSE)][v] \in {UNSAVED, TrueKey(FALSE, v)}
  BY <1>4, <1>5 DEF StabilityInv, KeysSaved, KeysMixed
<1> QED
  BY <1>3, <1>6

LEMMA AnswerGiven ==
  ASSUME NEW l \in BOOLEAN, NEW f \in BOOLEAN, NEW v \in Versions, NEW mask, NEW key,
         conf' = conf, answer' = Answer(l, f, v, mask, key),
         ~l => mask = TrueMask(FALSE, f, v) /\ (KeysMixed \/ key = TrueKey(FALSE, v))
  PROVE  AnswersNonlocal' /\ KeywordsOfUserProfile'
<1>1. /\ answer'.of = "flags" /\ answer'.local = l /\ answer'.filemask_is_profile = f
      /\ answer'.version = v /\ answer'.mask = mask /\ answer'.key = key
  BY DEF Answer
<1>2. AnswersNonlocal'
  BY <1>1 DEF AnswersNonlocal, KeysMixed, SameKeywords, TrueMask, TrueKey, TrueUserKey,
     TrueKeywords, UserProfile
<1> QED
  BY <1>1, <1>2 DEF KeywordsOfUserProfile

LEMMA CalcVersionFlags ==
  ASSUME StabilityInv, NEW l \in BOOLEAN, NEW f \in BOOLEAN, NEW v \in Versions,
         calc_version_flags(l, f, v)
  PROVE  StabilityInv'
<1>1. conf' = conf /\ phase' = phase
  BY DEF calc_version_flags
<1>2. CASE calc_version_flags_saved(l, f, v)
  <2> DEFINE mask == masks.saved[mask_index(l, f)][v]
             key == keys.saved[keyword_index(l)][v]
  <2>1. /\ mask # UNSAVED /\ key # UNSAVED /\ answer' = Answer(l, f, v, mask, key)
        /\ masks' = masks /\ keys' = keys
    BY <1>2 DEF calc_version_flags_saved
  <2>2. ~l => mask = TrueMask(FALSE, f, v) /\ (KeysMixed \/ key = TrueKey(FALSE, v))
    BY <2>1, GuessedIndex
  <2>3. AnswersNonlocal' /\ KeywordsOfUserProfile'
    BY <1>1, <2>1, <2>2, AnswerGiven
  <2> QED
    BY <1>1, <2>1, <2>3, SavedKept, PrintsKept DEF StabilityInv
<1>3. CASE calc_version_flags_calculate(l, f, v)
  <2> DEFINE m == setMasks(masks, l, f)
             n == restore_collects(m, l, conf.always_accept_keywords)
             k == setKeyflags(keys, l, conf.always_accept_keywords)
  <2>1. answer' = Answer(l, f, v, m.flags[v], k.flags[v]) /\ PackageSave_restore(n, k)
    BY <1>3 DEF calc_version_flags_calculate
  <2>2. MasksSaved(m) /\ m.flags[v] = TrueMask(l, f, v)
    BY SetMasks DEF StabilityInv
  <2>3. KeysSaved(k) /\ (l \/ ~KeysMixed => k.flags[v] = TrueKey(l, v))
    BY SettingKeys
  <2>4. AnswersNonlocal' /\ KeywordsOfUserProfile'
    <3>1. ~l => m.flags[v] = TrueMask(FALSE, f, v) /\ (KeysMixed \/ k.flags[v] = TrueKey(FALSE, v))
      BY <2>2, <2>3
    <3> HIDE DEF m, k
    <3> QED
      BY <1>1, <2>1, <3>1, AnswerGiven
  <2>5. /\ MasksSaved(masks') /\ masks'.flags = masks.flags
        /\ KeysSaved(keys') /\ keys'.flags = keys.flags
    BY <2>1, <2>3, SettingMasks, GoesBack
  <2> QED
    BY <1>1, <2>4, <2>5, SavedKept, PrintsKept DEF StabilityInv
<1> QED
  BY <1>2, <1>3 DEF calc_version_flags

LEMMA VersionKeywords ==
  ASSUME StabilityInv, NEW v \in Versions, VER_VERSIONKEYWORDSS(v) PROVE StabilityInv'
<1> DEFINE k == get_effective_keywords_userprofile(keys)
<1>1. /\ conf' = conf /\ phase' = phase /\ masks' = masks /\ keys' = k
      /\ answer' = [of |-> "keywords", version |-> v, keywords |-> k.effective[v]]
  BY DEF VER_VERSIONKEYWORDSS
<1>2. KeysSaved(k) /\ k.effective[v] = TrueKeywords(UserProfile, v)
  BY EffectiveUserProfile DEF StabilityInv, HasEffective, EffectiveAt,
     SAVEEFFECTIVE_USERPROFILE, SAVEEFFECTIVE_PROFILE
<1>3. k.flags = keys.flags
  BY EffectiveUserProfile DEF StabilityInv
<1>4. AnswersNonlocal'
  BY <1>1 DEF AnswersNonlocal
<1>5. KeywordsOfUserProfile'
  BY <1>1, <1>2 DEF KeywordsOfUserProfile, TrueKeywords, UserProfile
<1> QED
  BY <1>1, <1>2, <1>3, <1>4, <1>5, SavedKept, PrintsKept DEF StabilityInv

LEMMA StabilityNext == StabilityInv /\ [Next]_vars => StabilityInv'
<1> SUFFICES ASSUME StabilityInv, [Next]_vars PROVE StabilityInv'
  OBVIOUS
<1>1. CASE Next
  BY <1>1, MatchStability, MatchObsolete, PrintPackage, Recommend, CalcVersionFlags,
     VersionKeywords DEF Next
<1>2. CASE UNCHANGED vars
  <2>1. conf' = conf /\ phase' = phase /\ masks' = masks /\ keys' = keys /\ answer' = answer
    BY <1>2 DEF vars
  <2>2. AnswersNonlocal' /\ KeywordsOfUserProfile'
    BY <2>1 DEF StabilityInv, AnswersNonlocal, KeywordsOfUserProfile, KeysMixed, SameKeywords,
       TrueMask, TrueKey, TrueUserKey, TrueKeywords, UserProfile
  <2> QED
    BY <2>1, <2>2, SavedKept, PrintsKept DEF StabilityInv
<1> QED
  BY <1>1, <1>2

THEOREM StabilityInvariant == Spec => []StabilityInv
  BY StabilityInit, StabilityNext, PTL DEF Spec

(* Every saved flag is a flag, and only what was saved is restored. *)
THEOREM SetStabilityTypes == Spec => []TypeOK
<1>1. StabilityInv => TypeOK
  BY DEF StabilityInv, TypeOK, MasksSaved, KeysSaved
<1> QED
  BY <1>1, StabilityInvariant, PTL

(* A version is printed with the masks of the setting chosen for printing. *)
THEOREM PrintedMasksAreChosen == Spec => []PrintsChosenMasks
<1>1. StabilityInv => PrintsChosenMasks
  BY DEF StabilityInv
<1> QED
  BY <1>1, StabilityInvariant, PTL

(* A version is printed with the keywords of that setting, unless
   ALWAYS_ACCEPT_KEYWORDS mixes the profiles. *)
THEOREM PrintedKeysAreChosen == Spec => []PrintsChosenKeys
<1>1. StabilityInv => PrintsChosenKeys
  BY DEF StabilityInv
<1> QED
  BY <1>1, StabilityInvariant, PTL

(* Without the user's configuration calc_version_flags guesses the index right. *)
THEOREM GuessIsRight == Spec => []AnswersNonlocal
<1>1. StabilityInv => AnswersNonlocal
  BY DEF StabilityInv
<1> QED
  BY <1>1, StabilityInvariant, PTL

(* Effective keywords are printed as the user's profile makes them. *)
THEOREM EffectiveKeywordsAreRight == Spec => []KeywordsOfUserProfile
<1>1. StabilityInv => KeywordsOfUserProfile
  BY DEF StabilityInv
<1> QED
  BY <1>1, StabilityInvariant, PTL

(* When a package is going to be printed with the user's configuration, the
   summary is that of its versions. *)
LEMMA SummaryOfUser ==
  ASSUME StabilityInv, print_package, conf.local, ~conf.filemask_is_profile
  PROVE  masks'.collects = UNION {masks'.flags[v] : v \in Versions}
<1> DEFINE i == SAVEMASK_USER
           m == CorePkgUserConfig_setMasks(masks, FALSE)
<1>1. masks' = restore_collects(m, TRUE, conf.always_accept_keywords)
  <2>1. conf.local = TRUE /\ conf.filemask_is_profile = FALSE
    BY OptionTypes DEF StabilityInv
  <2> QED
    BY <2>1 DEF print_package, set_stability, setMasks
<1>2. MasksSaved(m) /\ HasMasks(m, i) /\ Saved(m.saved[i])
  BY SetMasksUser DEF StabilityInv, UserMaskIndex
<1> HIDE DEF m
<1>3. i \in MaskIndex /\ i = SAVEKEY_USER
  BY DEF SAVEMASK_USER, SAVEKEY_USER, MaskIndex
<1>4. masks'.collects = m.saved_collects[i] /\ masks'.flags = m.flags
  BY <1>1, <1>2, <1>3 DEF restore_collects, MasksSaved, MaskRecord
<1>5. m.saved_collects[i] = UNION {m.saved[i][v] : v \in Versions}
  BY <1>2 DEF MasksSaved, SummarySaved
<1>6. \A v \in Versions : m.saved[i][v] = m.flags[v]
  BY <1>2, <1>3 DEF MasksSaved, HasMasks, Saved
<1> QED
  BY <1>4, <1>5, <1>6

(* The summary of a package is right at the time when it is going to be printed
   with the user's configuration. *)
THEOREM SummaryIsOfTheVersions == Spec => SummaryWhenChosen
<1> DEFINE Step == phase = "match" /\ phase' = "print" /\ conf.local /\ ~conf.filemask_is_profile
                     => masks'.collects = UNION {masks'.flags[v] : v \in Versions}
<1>1. StabilityInv /\ [Next]_vars => [Step]_vars
  <2> SUFFICES ASSUME StabilityInv, Next, phase = "match", phase' = "print",
                      conf.local, ~conf.filemask_is_profile
               PROVE  masks'.collects = UNION {masks'.flags[v] : v \in Versions}
    OBVIOUS
  <2>1. print_package
    BY DEF Next, match_stability, match_obsolete, recommend, calc_version_flags,
       VER_VERSIONKEYWORDSS
  <2> QED
    BY <2>1, SummaryOfUser
<1> QED
  BY <1>1, StabilityInvariant, PTL DEF Spec, SummaryWhenChosen

================================================================================

-------------------------------- MODULE Defaults -------------------------------
(***************************************************************************)
(* The options that coreq comes with (coreqrc/defaults.cc and              *)
(* coreqrc/def_i18n.cc): their types, names and default values, with all   *)
(* delayed references.  A literal text in which nothing else matters is L. *)
(***************************************************************************)
EXTENDS Sequences

(* Pieces of a value, see CoreqRc. *)
L == <<"text">>
T(text) == <<text>>
R(name) == <<"%{", name, "}">>
Esc(name) == <<"%{", "\\", name, "}">>
Star(name) == <<"%{", "*", name, "}">>
With(name, sep, append) == <<"%{", name, sep, append, "}">>
If(name) == <<"%{", "?", name, "}">>
Unless(name) == <<"%{", "!", name, "}">>
IfSet(name) == <<"%{", "?", "?", name, "}">>
Else == <<"%{", "else", "}">>
Fi_missing == <<>>  \* mutation: the end of a block is forgotten
Fi == <<"%{", "}">>

Option(type, name, text) ==
  [type |-> type, key |-> <<name>>, value |-> text, local_value |-> <<>>]
String(name, text) == Option("STRING", name, text)
Bool(name, text) == Option("BOOLEAN", name, text)
Number(name, text) == Option("INTEGER", name, text)
Prefix(name, text) == Option("PREFIXSTRING", name, text)
Texts(names) == [i \in DOMAIN names |-> String(names[i], L)]

-----------------------------------------------------------------------------
Paths == <<
  String("COREQRC", <<>>), Bool("WIDETERM", <<>>), Number("COLUMNS", <<>>),
  Prefix("COREQRC_SOURCE", <<>>), String("COREQ_SYNC_OPTS", <<>>),
  String("COREQ_SYNC_CONF", R("COREQ_SYNC_OPTS")), String("COREQ_REMOTE_OPTS", <<>>),
  String("COREQ_TEST_OBSOLETE_OPTS", T("-d")), String("COREQ_INSTALLED_AFTER", <<>>),
  Prefix("COREQ_PREFIX", <<>>), Prefix("ROOT", <<>>),
  Prefix("EPREFIX", R("COREQ_PREFIX")), Prefix("EPREFIX_TREE", <<>>),
  Prefix("EPREFIX_ROOT", IfSet("EPREFIX") \o R("EPREFIX") \o Else \o R("ROOT") \o Fi),
  Prefix("COREPKG_CONFIGROOT", R("EPREFIX")),
  Prefix("COREPKG_DEFAULTS", R("EPREFIX") \o L),
  String("MAKE_GLOBALS", R("COREPKG_DEFAULTS") \o T("/make.globals")),
  String("COREPKG_REPOS_CONF", R("COREPKG_DEFAULTS") \o T("/repos.conf")),
  String("COREPKG_REPOSITORIES", <<>>), Prefix("EPREFIX_COREPKG_EXEC", R("EPREFIX")),
  Prefix("EPREFIX_SOURCE", R("COREQ_PREFIX")),
  Prefix("EPREFIX_INSTALLED", R("EPREFIX_ROOT")),
  Prefix("EPREFIX_COREPKG_CACHE", R("EPREFIX")),
  Prefix("EPREFIX_ACCESS_OVERLAYS", <<>>),
  Prefix("EPREFIX_PORTDIR", R("EPREFIX_TREE")),
  Prefix("EPREFIX_OVERLAYS", R("EPREFIX_TREE")) >>

CachefilesAndUsers == <<
  Prefix("EPREFIX_COREPKG_PROFILE", R("EPREFIX_TREE")),
  Prefix("EPREFIX_VIRTUAL", R("EPREFIX_TREE")), String("TMPDIR", <<>>),
  String("COREQ_TMPDIR", R("TMPDIR")), String("COREQ_CACHEFILE", R("EPREFIX") \o L),
  String("COREQ_PREVIOUS", R("EPREFIX") \o T("COREQ_PREVIOUS")),
  String("COREQ_REMOTE1", R("EPREFIX") \o L), String("COREQ_REMOTE2", R("EPREFIX") \o L),
  Number("REMOTE_DEFAULT", T("0")), String("COREQ_REMOTEARCHIVE1", R("EPREFIX") \o L),
  String("COREQ_REMOTEARCHIVE2", R("EPREFIX") \o L), String("LOCAL_LAYMAN", <<>>),
  String("EBUILD_DEPEND_TEMP", R("EPREFIX_COREPKG_EXEC") \o L),
  String("COREQ_WORLD", R("EPREFIX_ROOT") \o L),
  String("COREQ_WORLD_SETS", R("COREQ_WORLD") \o T("_sets")), Bool("SAVE_WORLD", T("true")),
  Bool("CURRENT_WORLD", T("true")), String("COREQ_USER", T("COREQ_USER")),
  String("COREQ_GROUP", T("COREQ_GROUP")), Number("COREQ_UID", T("COREQ_UID")),
  Number("COREQ_GID", T("COREQ_GID")), String("REQUIRE_DROP", T("root")),
  Bool("NODROP_FATAL", T("false")), String("COREPKG_ROOTPATH", T("path")),
  String("DEFAULT_ARCH", T("arch")), Number("NOFOUND_STATUS", L), Number("MOREFOUND_STATUS", L),
  Number("COREQ_LIMIT", T("50")), Number("COREQ_LIMIT_COMPACT", T("200")),
  Bool("QUICKMODE", T("false")), Bool("CAREMODE", T("false")),
  Bool("USE_BUILD_TIME", T("true")), Bool("QUIETMODE", T("false")) >>

PrintingOptions == <<
  String("PRINT_APPEND", L), Bool("DIFF_ONLY_INSTALLED", T("false")),
  Bool("DIFF_NO_SLOTS", T("false")), Bool("DIFF_SEPARATE_DELETED", T("true")),
  Bool("NO_RESTRICTIONS", T("false")), Bool("NO_BINARY", T("false")),
  Bool("COREQ_USE_EXPAND", T("true")), Bool("OMIT_EXPAND", T("false")),
  Bool("RESTRICT_INSTALLED", T("true")), Bool("CARE_RESTRICT_INSTALLED", T("true")),
  Bool("DEPS_INSTALLED", T("true")), Bool("DEP", T("true")), Bool("SRC_URI", T("true")),
  Bool("REQUIRED_USE", T("true")), String("DEFAULT_FORMAT", T("normal")),
  String("PRINT_COUNT_ALWAYS", T("false")), Bool("NOCOLORS", R("NOCOLOR")),
  Bool("NOSTATUSLINE", R("NOCOLOR")), Bool("NOPERCENTAGE", R("NOCOLOR")),
  Bool("FORCE_USECOLORS", T("false")), Bool("FORCE_COLORS", R("FORCE_USECOLORS")),
  Bool("FORCE_STATUSLINE", R("FORCE_USECOLORS")),
  Bool("FORCE_PERCENTAGE", R("FORCE_USECOLORS")), Bool("COLOR_ORIGINAL", T("true")),
  Bool("COLOR_LOCAL_MASK", T("false")), Bool("STYLE_VERSION_SORTED", T("false")),
  Bool("STYLE_VERSION_LINES", T("false")), Bool("COLORED_SLOTS", T("true")),
  Bool("COLON_SLOTS", T("false")), Bool("DEFAULT_IS_OR", T("false")),
  Bool("DUP_PACKAGES_ONLY_OVERLAYS", T("false")),
  Bool("DUP_VERSIONS_ONLY_OVERLAYS", T("false")),
  String("OVERLAYS_LIST", T("all-used-renumbered")), Number("LEVENSHTEIN_DISTANCE", T("2")) >>

UpdateOptions == <<
  Bool("UPDATE_VERBOSE", T("false")), String("CACHE_METHOD_PARSE", L),
  String("PORTDIR_CACHE_METHOD", T("PORTDIR_CACHE_METHOD")),
  String("OVERLAY_CACHE_METHOD", T("parse") \o T("|") \o L), String("ADD_CACHE_METHOD", <<>>),
  String("CACHE_METHOD", R("ADD_CACHE_METHOD")), String("ADD_OVERRIDE_CACHE_METHOD", <<>>),
  String("OVERRIDE_CACHE_METHOD", R("ADD_OVERRIDE_CACHE_METHOD")),
  String("EBUILD_COREPKG3_0_24", T("true")), String("REPO_NAMES", <<>>),
  String("EXCLUDE_OVERLAY", <<>>), String("ADD_OVERLAY", <<>>),
  Bool("EXPORT_PORTDIR_OVERLAY", T("true")), Bool("KEEP_VIRTUALS", T("false")),
  Bool("LOCAL_COREPKG_CONFIG", T("true")), Bool("ALWAYS_ACCEPT_KEYWORDS", T("false")),
  Bool("UPGRADE_LOCAL_MODE", <<>>), Bool("RECOMMEND_LOCAL_MODE", <<>>),
  Bool("RECURSIVE_SETS", T("true")), Bool("UPGRADE_TO_HIGHEST_SLOT", T("true")),
  Bool("PRINT_ALWAYS", T("false")), Bool("COUNT_ONLY_PRINTED", T("true")),
  Bool("PRINT_BUGS", T("true")), Bool("DIFF_PRINT_INSTALLED", T("true")),
  String("PRINT_SETNAMES", If("ALL_SETNAMES") \o T("all") \o Fi \o T("setnames")),
  Bool("PRINT_SLOTS", T("true")), Bool("COREQ_PRINT_IUSE", T("true")) >>

IuseAndKeywordsOptions == <<
  Bool("DIFF_PRINT_IUSE", T("false")), Bool("UPDATE_PRINT_IUSE", T("false")),
  Bool("DROP_PRINT_IUSE", T("false")), Bool("PRINT_IUSE", Star("PRINT_IUSE")),
  Bool("VERSION_IUSE_NORMAL", T("true")), Bool("VERSION_IUSE_VERBOSE", T("true")),
  Bool("PRINT_KEYWORDS", T("true")), Bool("VERSION_KEYWORDS_NORMAL", T("false")),
  Bool("VERSION_KEYWORDS_VERBOSE", T("true")), Bool("PRINT_SRC_URI", T("true")),
  Bool("PRINT_EAPI", T("true")), Bool("PRINT_MASKREASONS", T("true")),
  Bool("MASKREASONS_NORMAL", T("true")), Bool("MASKREASONS_VERBOSE", T("true")),
  Bool("VERSION_DEPS_NORMAL", T("false")), Bool("VERSION_DEPS_VERBOSE", T("true")),
  Bool("USE_EFFECTIVE_KEYWORDS", T("false")), Bool("ALL_SETNAMES", T("true")),
  Bool("NOBEST_COMPACT", T("true")), Bool("NOBEST_CHANGE", T("true")),
  Bool("DIFF_NOBEST", T("false")) >>

Terminals == <<
  Bool("DIFF_NOBEST_CHANGE", T("false")), String("TERM", T("xterm")),
  String("TERM_STATUSLINE", L), String("TERM_SOFTSTATUSLINE", L), String("EXIT_STATUSLINE", <<>>),
  Bool("RESET_ALL_LINES", T("true")), String("BG0", T("none")), String("BG1", T("black")),
  String("BG2", T("none")), String("BG3", T("white")),
  String("BG0S", Unless("SOLARIZED") \o R("BG0") \o Else \o T("none") \o Fi),
  String("TERM_ALT1", L \o R("TERM_ALT1_ADD")), String("TERM_ALT1_ADD", <<>>),
  String("TERM_ALT2", L \o R("TERM_ALT2_ADD")), String("TERM_ALT2_ADD", <<>>),
  String("TERM_ALT3", <<>>), String("DARK", T("auto")), String("TERM_DARK", L),
  String("COLORFGBG_DARK", L), String("COLORFGBG", <<>>), Bool("SOLARIZED", T("false")),
  String("COLORSCHEME0", Unless("SOLARIZED") \o L \o Else \o T("5") \o Fi) >>

ColorSchemesAndMatchFields == <<
  String("COLORSCHEME1", Unless("SOLARIZED") \o L \o Else \o T("4") \o Fi),
  String("COLORSCHEME2", R("COLORSCHEME0")), String("COLORSCHEME3", R("COLORSCHEME0")),
  Bool("SORT_INST_USE_ALPHA", T("false")), String("CHECK_INSTALLED_OVERLAYS", T("repository")),
  String("MATCH_FIELD_DESCRIPTION", L), String("MATCH_FIELD_SET", L),
  String("MATCH_FIELD_HOMEPAGE", L), String("MATCH_FIELD_CATEGORY_NAME", T("/")),
  String("MATCH_FIELD_LICENSE", R("MATCH_FIELD_CATEGORY_NAME")), String("MATCH_FIELD_DEPS", L),
  String("MATCH_FIELD_SRC_URI", R("MATCH_FIELD_HOMEPAGE")),
  String("MATCH_FIELD_EAPI", R("MATCH_FIELD_CATEGORY_NAME")),
  String("DEFAULT_MATCH_FIELD",
      Esc("MATCH_FIELD_DESCRIPTION") \o L \o Esc("MATCH_FIELD_SET") \o L \o
      Esc("MATCH_FIELD_HOMEPAGE") \o L \o Esc("MATCH_FIELD_CATEGORY_NAME") \o L \o
      Esc("MATCH_FIELD_LICENSE") \o L \o Esc("MATCH_FIELD_DEPS") \o L \o
      Esc("MATCH_FIELD_SRC_URI") \o L \o Esc("MATCH_FIELD_EAPI") \o L),
  String("MATCH_ALGORITHM_REGEX_CASE",
      L \o T("|") \o L \o T("|") \o L \o T("|") \o L \o T("|") \o L \o T("|") \o L),
  String("MATCH_ALGORITHM_REGEX", L \o T("|") \o L \o T("|") \o L),
  String("MATCH_ALGORITHM_PATTERN", L \o T("|") \o L \o T("|") \o L) >>

MatchAlgorithmsAndTests == <<
  String("MATCH_ALGORITHM_SUBSTRING", L), String("MATCH_ALGORITHM_EXACT", L),
  String("MATCH_ALGORITHM_BEGIN", L), String("MATCH_ALGORITHM_REGEX_CASE_FALLBACK", L),
  String("DEFAULT_MATCH_ALGORITHM",
      Esc("MATCH_ALGORITHM_REGEX_CASE") \o L \o Esc("MATCH_ALGORITHM_REGEX") \o L \o
      Esc("MATCH_ALGORITHM_PATTERN") \o L \o Esc("MATCH_ALGORITHM_SUBSTRING") \o L \o
      Esc("MATCH_ALGORITHM_EXACT") \o L \o Esc("MATCH_ALGORITHM_BEGIN") \o L \o
      Esc("MATCH_ALGORITHM_REGEX_CASE_FALLBACK") \o L),
  Bool("TEST_FOR_EMPTY", T("true")), Bool("TEST_KEYWORDS", T("true")),
  Bool("TEST_MASK", T("true")), Bool("TEST_UNMASK", T("true")),
  Bool("TEST_USE", T("true")), Bool("TEST_ENV", T("true")),
  Bool("TEST_LICENSE", T("true")), Bool("TEST_RESTRICT", T("true")),
  Bool("TEST_CFLAGS", T("true")), Bool("TEST_REMOVED", T("true")),
  Bool("TEST_FOR_NONEXISTENT", T("true")), Bool("NONEXISTENT_IF_OTHER_OVERLAY", T("true")),
  Bool("NONEXISTENT_IF_MASKED", T("true")), Bool("TEST_FOR_REDUNDANCY", T("true")),
  String("ACCEPT_KEYWORDS_AS_ARCH", T("full")), String("REDUNDANT_IF_DOUBLE", T("some")),
  String("REDUNDANT_IF_DOUBLE_LINE", T("some")), String("REDUNDANT_IF_MIXED", T("false")),
  String("REDUNDANT_IF_WEAKER", T("all-installed")), String("REDUNDANT_IF_STRANGE", T("some")),
  String("REDUNDANT_IF_NO_CHANGE", T("all-installed")),
  String("REDUNDANT_IF_MASK_NO_CHANGE", T("all-uninstalled")),
  String("REDUNDANT_IF_UNMASK_NO_CHANGE", T("all-installed")) >>

RedundancyTests == <<
  String("REDUNDANT_IF_DOUBLE_MASKED", T("some")),
  String("REDUNDANT_IF_DOUBLE_UNMASKED", T("some")), String("REDUNDANT_IF_DOUBLE_USE", T("false")),
  String("REDUNDANT_IF_DOUBLE_ENV", T("false")), String("REDUNDANT_IF_DOUBLE_LICENSE", T("some")),
  String("REDUNDANT_IF_DOUBLE_RESTRICT", T("some")),
  String("REDUNDANT_IF_DOUBLE_CFLAGS", T("false")), String("REDUNDANT_IF_IN_KEYWORDS", T("-some")),
  String("REDUNDANT_IF_IN_MASK", T("-some")), String("REDUNDANT_IF_IN_UNMASK", T("-some")),
  String("REDUNDANT_IF_IN_USE", T("false")), String("REDUNDANT_IF_IN_ENV", T("false")),
  String("REDUNDANT_IF_IN_LICENSE", T("-some")), String("REDUNDANT_IF_IN_RESTRICT", T("-some")),
  String("REDUNDANT_IF_IN_CFLAGS", T("false")),
  String("COREQCFGDIR", R("COREPKG_CONFIGROOT") \o T("/etc/corepkg")),
  Bool("SLOT_UPGRADE_FORBID", Esc("COREQCFGDIR") \o L),
  Bool("SLOT_UPGRADE_ALLOW", Esc("COREQCFGDIR") \o L),
  String("KEYWORDS_NONEXISTENT", Esc("COREQCFGDIR") \o L \o Esc("COREQCFGDIR") \o L),
  String("MASK_NONEXISTENT", Esc("COREQCFGDIR") \o L),
  String("UNMASK_NONEXISTENT", Esc("COREQCFGDIR") \o L),
  String("USE_NONEXISTENT", Esc("COREQCFGDIR") \o L),
  String("ENV_NONEXISTENT", Esc("COREQCFGDIR") \o L),
  String("LICENSE_NONEXISTENT", Esc("COREQCFGDIR") \o L),
  String("RESTRICT_NONEXISTENT", Esc("COREQCFGDIR") \o L),
  String("CFLAGS_NONEXISTENT", Esc("COREQCFGDIR") \o L),
  String("INSTALLED_NONEXISTENT", Esc("COREQCFGDIR") \o L), String("ADD_PACKAGE_NOWARN", <<>>),
  Bool("OBSOLETE_NOWARN", T("false")),
  String("OBSOLETE_PACKAGE_NOWARN",
      Esc("COREQCFGDIR") \o L \o Esc("COREQCFGDIR") \o L \o Esc("COREQCFGDIR") \o L \o
      Esc("COREQCFGDIR") \o L \o Esc("COREQCFGDIR") \o L \o Esc("COREQCFGDIR") \o L \o
      Esc("COREQCFGDIR") \o L \o Esc("COREQCFGDIR") \o L \o Esc("COREQCFGDIR") \o L \o
      Esc("COREQCFGDIR") \o L),
  String("PACKAGE_NOWARN",
      Esc("COREQCFGDIR") \o L \o If("OBSOLETE_NOWARN") \o R("OBSOLETE_PACKAGE_NOWARN") \o L \o
      Fi \o R("ADD_PACKAGE_NOWARN")) >>

SetsAndColors == <<
  String("COREQ_LOCAL_SETS_ADD", <<>>),
  String("COREQ_LOCAL_SETS",
      R("COREQ_LOCAL_SETS_ADD") \o L \o Esc("COREQCFGDIR") \o L \o Esc("COREPKG_CONFIGROOT") \o L),
  String("EAPI_REGEX", L),
  String("COLOR_RESET",
      L \o R("BG0S") \o T("|") \o L \o R("BG1") \o T("|") \o L \o R("BG2") \o T("|") \o L \o
      R("BG3")),
  String("COLOR_RESET_BG",
      L \o R("BG0S") \o T("|") \o L \o R("BG1") \o T("|") \o L \o R("BG2") \o T("|") \o L \o
      R("BG3")),
  String("COLOR_NAME",
      L \o R("BG0S") \o T("|") \o L \o R("BG1") \o T("|") \o L \o R("BG2") \o T("|") \o L \o
      R("BG3")),
  String("COLOR_WORLD",
      L \o R("BG0S") \o T("|") \o L \o R("BG1") \o T("|") \o L \o R("BG2") \o T("|") \o L \o
      R("BG3") \o T("|") \o L \o T("|") \o L),
  String("COLOR_WORLD_SETS",
      L \o R("BG0S") \o T("|") \o L \o R("BG1") \o T("|") \o L \o R("BG2") \o T("|") \o L \o
      R("BG3") \o T("|") \o L \o T("|") \o L),
  String("COLOR_CATEGORY", R("COLOR_NORMAL")),
  String("COLOR_CATEGORY_SYSTEM",
      L \o R("BG0S") \o T("|") \o L \o R("BG1") \o T("|") \o L \o R("BG2") \o T("|") \o L \o
      R("BG3")),
  String("COLOR_CATEGORY_PROFILE",
      L \o R("BG0S") \o T("|") \o L \o R("BG1") \o T("|") \o L \o R("BG2") \o T("|") \o L \o
      R("BG3")),
  String("COLOR_CATEGORY_WORLD", R("COLOR_WORLD")),
  String("COLOR_CATEGORY_WORLD_SETS", R("COLOR_WORLD_SETS")),
  String("COLOR_UPGRADE_TEXT",
      L \o R("BG0S") \o T("|") \o L \o R("BG1") \o T("|") \o L \o R("BG2") \o T("|") \o L \o
      R("BG3") \o T("|") \o L),
  String("COLOR_DOWNGRADE_TEXT",
      L \o R("BG0S") \o T("|") \o L \o R("BG1") \o T("|") \o L \o R("BG2") \o T("|") \o L \o
      R("BG3") \o T("|") \o L),
  String("COLOR_UPGRADE", With("COLOR_UPGRADE_TEXT", ";", "inverse")),
  String("COLOR_DOWNGRADE", With("COLOR_DOWNGRADE_TEXT", ";", "inverse")),
  String("DIFF_COLOR_UNINST_STABILIZE", With("COLOR_STABLE", ",", "1")),
  String("DIFF_COLOR_INST_STABILIZE", With("DIFF_COLOR_UNINST_STABILIZE", ";", "inverse")),
  String("DIFF_COLOR_BETTER", R("DIFF_COLOR_CHANGED")) >>

ColorsOfVersions == <<
  String("DIFF_COLOR_WORSE", R("DIFF_COLOR_DELETE")),
  String("DIFF_COLOR_NEW_TAG", R("DIFF_COLOR_NEW")),
  String("DIFF_COLOR_NEW", With("COLOR_STABLE", ",", "1")),
  String("DIFF_COLOR_DELETE",
      L \o R("BG0S") \o T("|") \o L \o R("BG1") \o T("|") \o L \o R("BG2") \o T("|") \o L \o
      R("BG3")),
  String("DIFF_COLOR_CHANGED",
      L \o R("BG0S") \o T("|") \o L \o R("BG1") \o T("|") \o L \o R("BG2") \o T("|") \o L \o
      R("BG3")),
  String("COLOR_INST_TAG", With("COLOR_STABLE", ",", "1;inverse")),
  String("COLOR_UNINST_TAG", R("COLOR_STABLE")),
  String("COLOR_DATE",
      L \o R("BG0S") \o T("|") \o L \o R("BG1") \o T("|") \o L \o R("BG2") \o T("|") \o L \o
      R("BG3")),
  String("COLOR_SRC_URI", R("COLOR_NORMAL")),
  String("COLOR_EAPI",
      L \o R("BG0S") \o T("|") \o L \o R("BG1") \o T("|") \o L \o R("BG2") \o T("|") \o L \o
      R("BG3")),
  String("COLOR_DEPEND",
      T("none") \o T("|") \o L \o R("BG1") \o T("|") \o T("none") \o T("|") \o L \o R("BG3")),
  String("COLOR_DEPEND_END",
      T("none") \o T("|") \o L \o R("BG1") \o T("|") \o T("none") \o T("|") \o L \o R("BG3")),
  String("COLOR_NORMAL",
      L \o R("BG0S") \o T("|") \o L \o R("BG1") \o T("|") \o L \o R("BG2") \o T("|") \o L \o
      R("BG3")),
  String("COLOR_NORMAL_END",
      T("none") \o T("|") \o L \o R("BG1") \o T("|") \o T("none") \o T("|") \o L \o R("BG3")),
  String("COLOR_MASKREASONS",
      L \o R("BG0S") \o T("|") \o L \o R("BG1") \o T("|") \o L \o R("BG2") \o T("|") \o L \o
      R("BG3")),
  String("COLOR_SET_USE",
      L \o R("BG0S") \o T("|") \o L \o R("BG1") \o T("|") \o L \o R("BG2") \o T("|") \o L \o
      R("BG3")),
  String("COLOR_UNSET_USE",
      L \o R("BG0S") \o T("|") \o L \o R("BG1") \o T("|") \o L \o R("BG2") \o T("|") \o L \o
      R("BG3")),
  String("COLOR_VERSION_IUSE",
      L \o R("BG0S") \o T("|") \o L \o R("BG1") \o T("|") \o L \o R("BG2") \o T("|") \o L \o
      R("BG3") \o T("|") \o L \o T("|") \o L),
  String("COLOR_COLL_IUSE",
      L \o R("BG0S") \o T("|") \o L \o R("BG1") \o T("|") \o L \o R("BG2") \o T("|") \o L \o
      R("BG3")),
  String("COLOR_REQUIRED_USE",
      L \o R("BG0S") \o T("|") \o L \o R("BG1") \o T("|") \o L \o R("BG2") \o T("|") \o L \o
      R("BG3") \o T("|") \o L \o T("|") \o L),
  String("COLOR_USE_EXPAND_START",
      L \o R("BG0S") \o T("|") \o L \o R("BG1") \o T("|") \o L \o R("BG2") \o T("|") \o L \o
      R("BG3")) >>

ColorsOfKeywords == <<
  String("COLOR_USE_EXPAND_END",
      T("none") \o T("|") \o L \o R("BG1") \o T("|") \o T("none") \o T("|") \o L \o R("BG3")),
  String("COLOR_USE_COLL",
      L \o R("BG0S") \o T("|") \o L \o R("BG1") \o T("|") \o L \o R("BG2") \o T("|") \o L \o
      R("BG3")),
  String("COLOR_INST_VERSION",
      L \o T("|") \o L \o R("BG1") \o T("|") \o L \o T("|") \o L \o R("BG3") \o T("|") \o L),
  String("COLOR_TITLE",
      L \o R("BG0S") \o T("|") \o L \o R("BG1") \o T("|") \o L \o R("BG2") \o T("|") \o L \o
      R("BG3")),
  String("COLOR_INST_TITLE",
      L \o R("BG0S") \o T("|") \o L \o R("BG1") \o T("|") \o L \o R("BG2") \o T("|") \o L \o
      R("BG3")),
  String("COLOR_AVAILABLE_TITLE",
      L \o R("BG0S") \o T("|") \o L \o R("BG1") \o T("|") \o L \o R("BG2") \o T("|") \o L \o
      R("BG3")),
  String("COLOR_MARKED_VERSION", R("COLOR_MARKED_NAME")),
  String("COLOR_PACKAGESETS", R("COLOR_WORLD_SETS")),
  String("COLOR_MARKED_NAME",
      L \o R("BG0S") \o L \o R("MARK_VERSIONS") \o T("|") \o L \o R("BG1") \o L \o
      R("MARK_VERSIONS") \o T("|") \o L \o R("BG2") \o L \o R("MARK_VERSIONS") \o T("|") \o L \o
      R("BG3") \o L \o R("MARK_VERSIONS")),
  String("COLOR_OVERLAYKEY",
      L \o R("BG0S") \o T("|") \o L \o R("BG1") \o T("|") \o L \o R("BG2") \o T("|") \o L \o
      R("BG3") \o T("|") \o T("39")),
  String("COLOR_VIRTUALKEY",
      L \o R("BG0S") \o T("|") \o L \o R("BG1") \o T("|") \o L \o R("BG2") \o T("|") \o L \o
      R("BG3") \o T("|") \o T("170")),
  String("COLOR_KEYEND", R("COLOR_RESET")), String("COLOR_OVERLAYNAME", R("COLOR_NORMAL")),
  String("COLOR_OVERLAYNAMEEND", <<>>), String("COLOR_NUMBERTEXT", R("COLOR_NORMAL")),
  String("COLOR_NUMBERTEXTEND", <<>>),
  String("COLOR_SLOTS",
      L \o R("BG0S") \o T("|") \o L \o R("BG1") \o T("|") \o L \o R("BG2") \o T("|") \o L \o
      R("BG3")),
  String("COLOR_BINARY",
      L \o R("BG0S") \o T("|") \o L \o R("BG1") \o T("|") \o L \o R("BG2") \o T("|") \o L \o
      R("BG3") \o T("|") \o L),
  String("COLOR_TBZ", R("COLOR_BINARY")), String("COLOR_GPKG", R("COLOR_BINARY")),
  String("COLOR_PAK",
      L \o R("BG0S") \o T("|") \o L \o R("BG1") \o T("|") \o L \o R("BG2") \o T("|") \o L \o
      R("BG3") \o T("|") \o L),
  String("COLOR_GPKGCOUNT", R("COLOR_PAKCOUNT")),
  String("COLOR_PAKCOUNT",
      L \o R("BG0S") \o T("|") \o L \o R("BG1") \o T("|") \o L \o R("BG2") \o T("|") \o L \o
      R("BG3") \o T("|") \o L),
  String("COLOR_RESTRICT",
      L \o R("BG0S") \o T("|") \o L \o R("BG1") \o T("|") \o L \o R("BG2") \o T("|") \o L \o
      R("BG3") \o T("|") \o T("99")),
  String("COLOR_PROPERTIES",
      L \o R("BG0S") \o T("|") \o L \o R("BG1") \o T("|") \o L \o R("BG2") \o T("|") \o L \o
      R("BG3") \o T("|") \o T("214")),
  String("COLOR_KEYWORDS",
      L \o R("BG0S") \o T("|") \o L \o R("BG1") \o T("|") \o L \o R("BG2") \o T("|") \o L \o
      R("BG3")),
  String("COLOR_KEYWORDSS", R("COLOR_KEYWORDS")), String("MARK_INSTALLED", T("inverse")),
  String("MARK_UPGRADE", T("bold")), String("MARK_VERSIONS", T("underline")),
  Bool("NOCOLOR", T("false")), String("CHAR_UPGRADE", T("U")), String("CHAR_DOWNGRADE", L),
  String("CHAR_INSTALLED", T("I")) >>

TagsAndStrings == <<
  String("CHAR_UNINSTALLED", R("DIFF_CHAR_NEW")),
  String("DIFF_CHAR_UNINST_STABILIZE", R("DIFF_CHAR_INST_STABILIZE")),
  String("DIFF_CHAR_INST_STABILIZE", L), String("DIFF_CHAR_NEW", T("N")),
  String("DIFF_CHAR_BETTER", L), String("DIFF_CHAR_WORSE", L),
  String("TAG_UPGRADE",
      L \o R("COLOR_UPGRADE") \o L \o R("CHAR_UPGRADE") \o L \o R("COLOR_RESET") \o L),
  String("TAG_DOWNGRADE",
      L \o R("COLOR_DOWNGRADE") \o L \o R("CHAR_DOWNGRADE") \o L \o R("COLOR_RESET") \o L),
  String("TAG_INSTALLED",
      L \o R("COLOR_INST_TAG") \o L \o R("CHAR_INSTALLED") \o L \o R("COLOR_RESET") \o L),
  String("TAG_UNINSTALLED",
      L \o R("COLOR_UNINST_TAG") \o L \o R("CHAR_UNINSTALLED") \o L \o R("COLOR_RESET") \o L),
  String("TAG_STABILIZE",
      L \o R("DIFF_COLOR_INST_STABILIZE") \o L \o R("DIFF_CHAR_INST_STABILIZE") \o L \o
      R("DIFF_COLOR_UNINST_STABILIZE") \o L \o R("DIFF_CHAR_UNINST_STABILIZE") \o L \o
      R("COLOR_RESET") \o L),
  String("TAG_NEW",
      L \o R("DIFF_COLOR_NEW_TAG") \o L \o R("DIFF_CHAR_NEW") \o L \o R("COLOR_RESET") \o L),
  String("TAG_BETTER",
      L \o R("DIFF_COLOR_BETTER") \o L \o R("DIFF_CHAR_BETTER") \o L \o R("COLOR_RESET") \o L),
  String("TAG_WORSE",
      L \o R("DIFF_COLOR_WORSE") \o L \o R("DIFF_CHAR_WORSE") \o L \o R("COLOR_RESET") \o L),
  String("STRING_PLAIN_INSTALLED", R("STRING_PLAIN_UNINSTALLED")),
  String("STRING_PLAIN_UNINSTALLED", L), String("DIFF_STRING_NEW", L),
  String("DIFF_STRING_DELETE", L), String("DIFF_STRING_CHANGED", L),
  String("FORMAT_NOBEST", R("FORMAT_COLOR_MASKED") \o L \o R("COLOR_RESET") \o L) >>

RestrictionTags == <<
  String("FORMAT_NOBEST_CHANGE", R("FORMAT_COLOR_MASKED") \o L \o R("COLOR_RESET") \o L),
  String("TAG_TBZ", T("tbz2")), String("TAG_GPKG", T("gpkg")), String("TAG_PAK", T("xpak")),
  String("TAG_MULTIGPKG", R("TAG_MULTIPAK")), String("TAG_MULTIPAK", T(":")),
  String("TAG_RESTRICT_FETCH", T("f")), String("TAG_RESTRICT_MIRROR", T("m")),
  String("TAG_RESTRICT_PRIMARYURI", T("p")), String("TAG_RESTRICT_BINCHECKS", T("b")),
  String("TAG_RESTRICT_STRIP", T("s")), String("TAG_RESTRICT_TEST", T("t")),
  String("TAG_RESTRICT_USERPRIV", T("u")), String("TAG_RESTRICT_INSTALLSOURCES", T("i")),
  String("TAG_RESTRICT_BINDIST", T("d")), String("TAG_RESTRICT_PARALLEL", T("P")),
  String("TAG_PROPERTIES_INTERACTIVE", T("i")), String("TAG_PROPERTIES_LIVE", T("l")),
  String("TAG_PROPERTIES_VIRTUAL", T("v")), String("TAG_PROPERTIES_SET", T("s")),
  String("TAG_FOR_PROFILE", L), String("TAG_FOR_MASKED", L), String("TAG_FOR_EX_PROFILE", L),
  String("TAG_FOR_EX_MASKED", L), String("TAG_FOR_LOCALLY_MASKED", L),
  String("TAG_FOR_STABLE", <<>>), String("TAG_FOR_UNSTABLE", L),
  String("TAG_FOR_MINUS_ASTERISK", L), String("TAG_FOR_MINUS_UNSTABLE", L),
  String("TAG_FOR_MINUS_KEYWORD", T("-")), String("TAG_FOR_ALIEN_STABLE", L),
  String("TAG_FOR_ALIEN_UNSTABLE", L), String("TAG_FOR_MISSING_KEYWORD", L),
  String("TAG_FOR_EX_UNSTABLE", L) >>

MaskTagsAndDepends == <<
  String("TAG_FOR_EX_MINUS_ASTERISK", L), String("TAG_FOR_EX_MINUS_UNSTABLE", L),
  String("TAG_FOR_EX_MINUS_KEYWORD", L), String("TAG_FOR_EX_ALIEN_STABLE", L),
  String("TAG_FOR_EX_ALIEN_UNSTABLE", L), String("TAG_FOR_EX_MISSING_KEYWORD", L),
  String("VERSION_NEWLINE", L), String("NAMEVERSION", L \o R("VERSION_NEWLINE")),
  String("EQNAMEVERSION", L \o R("VERSION_NEWLINE")),
  String("ANAMESLOT", L \o R("VERSION_NEWLINE")), String("ANAMEASLOT", L \o R("VERSION_NEWLINE")),
  String("NAMESLOT", L \o R("VERSION_NEWLINE")), String("NAMEASLOT", L \o R("VERSION_NEWLINE")),
  String("DATESORT_DATE", L), String("DATESORT", L \o R("NAMESLOT")),
  String("FORMAT_SRC_URI", L \o R("COLOR_SRC_URI") \o L \o R("COLOR_RESET") \o L),
  String("FORMAT_EAPI", L \o R("COLOR_EAPI") \o L \o R("COLOR_RESET") \o L),
  String("FORMAT_DEPEND", L \o R("COLOR_DEPEND") \o L \o R("COLOR_DEPEND_END") \o L),
  String("FORMAT_RDEPEND", L \o R("COLOR_DEPEND") \o L \o R("COLOR_DEPEND_END") \o L),
  String("FORMAT_PDEPEND", L \o R("COLOR_DEPEND") \o L \o R("COLOR_DEPEND_END") \o L),
  String("FORMAT_BDEPEND", L \o R("COLOR_DEPEND") \o L \o R("COLOR_DEPEND_END") \o L) >>

DependFormats == <<
  String("FORMAT_IDEPEND", L \o R("COLOR_DEPEND") \o L \o R("COLOR_DEPEND_END") \o L),
  String("FORMAT_DEPEND_VERBOSE", R("FORMAT_DEPEND")),
  String("FORMAT_RDEPEND_VERBOSE", R("FORMAT_RDEPEND")),
  String("FORMAT_PDEPEND_VERBOSE", R("FORMAT_PDEPEND")),
  String("FORMAT_BDEPEND_VERBOSE", R("FORMAT_BDEPEND")),
  String("FORMAT_IDEPEND_VERBOSE", R("FORMAT_IDEPEND")),
  String("FORMAT_VERSION_IUSE",
      L \o R("COLOR_VERSION_IUSE") \o L \o If("OMIT_EXPAND") \o L \o Else \o
      If("COREQ_USE_EXPAND") \o L \o Else \o L \o Fi \o Fi),
  String("FORMAT_COLLIUSE",
      L \o R("COLOR_COLL_IUSE") \o L \o If("OMIT_EXPAND") \o L \o Else \o If("COREQ_USE_EXPAND") \o
      L \o Else \o L \o Fi \o Fi),
  String("FORMAT_VERSION_REQUIRED_USE", L \o R("COLOR_REQUIRED_USE") \o L),
  String("FORMAT_KEYWORDS", L \o R("COLOR_KEYWORDS") \o L \o R("COLOR_RESET") \o L),
  String("FORMAT_KEYWORDSS", L \o R("COLOR_KEYWORDSS") \o L \o R("COLOR_RESET") \o L),
  String("FORMAT_KEYWORDS_EQUAL", L \o R("COLOR_KEYWORDSS") \o L \o R("COLOR_RESET") \o L),
  String("FORMAT_MASK_TAG",
      L \o If("COLOR_ORIGINAL") \o L \o R("FORMAT_COLOR_MASKED") \o L \o Fi \o L \o
      R("FORMAT_COLOR_MASKED") \o L \o R("TAG_FOR_PROFILE") \o L \o R("FORMAT_COLOR_MASKED") \o
      L \o R("TAG_FOR_MASKED") \o L \o R("TAG_FOR_EX_PROFILE") \o L \o R("TAG_FOR_EX_MASKED") \o
      L \o If("COLOR_LOCAL_MASK") \o L \o R("FORMAT_COLOR_MASKED") \o L \o Fi \o L \o
      R("TAG_FOR_LOCALLY_MASKED") \o L) >>

StabilityFormats == <<
  String("FORMAT_STABILITY_TAG",
      L \o Unless("COLOR_ORIGINAL") \o L \o R("FORMAT_COLOR_STABLE") \o L \o Fi \o L \o
      R("FORMAT_COLOR_STABLE") \o L \o R("TAG_FOR_STABLE") \o L \o R("FORMAT_COLOR_UNSTABLE") \o
      L \o R("TAG_FOR_EX_UNSTABLE") \o L \o R("FORMAT_COLOR_MASKED") \o L \o
      R("TAG_FOR_EX_MISSING_KEYWORD") \o L \o R("FORMAT_COLOR_MASKED") \o L \o
      R("TAG_FOR_EX_ALIEN_STABLE") \o L \o R("FORMAT_COLOR_MASKED") \o L \o
      R("TAG_FOR_EX_ALIEN_UNSTABLE") \o L \o R("FORMAT_COLOR_MASKED") \o L \o
      R("TAG_FOR_EX_MINUS_KEYWORD") \o L \o R("FORMAT_COLOR_MASKED") \o L \o
      R("TAG_FOR_EX_MINUS_UNSTABLE") \o L \o R("FORMAT_COLOR_MASKED") \o L \o
      R("TAG_FOR_EX_MINUS_ASTERISK") \o L \o R("FORMAT_COLOR_UNSTABLE") \o L \o
      R("TAG_FOR_UNSTABLE") \o L \o R("FORMAT_COLOR_MASKED") \o L \o
      R("TAG_FOR_MISSING_KEYWORD") \o L \o R("FORMAT_COLOR_MASKED") \o L \o
      R("TAG_FOR_ALIEN_STABLE") \o L \o R("FORMAT_COLOR_MASKED") \o L \o
      R("TAG_FOR_ALIEN_UNSTABLE") \o L \o R("FORMAT_COLOR_MASKED") \o L \o
      R("TAG_FOR_MINUS_KEYWORD") \o L \o R("FORMAT_COLOR_MASKED") \o L \o
      R("TAG_FOR_MINUS_UNSTABLE") \o L \o R("FORMAT_COLOR_MASKED") \o L \o
      R("TAG_FOR_MINUS_ASTERISK") \o L),
  String("FORMAT_STABILITY", L \o R("FORMAT_MASK_TAG") \o R("FORMAT_STABILITY_TAG") \o L),
  String("FORMAT_PROPERTIESSEPARATOR", L \o R("COLOR_PROPERTIES") \o L),
  String("FORMAT_RESTRICTSEPARATOR", L \o R("COLOR_RESTRICT") \o L),
  String("FORMAT_PROPERTIES",
      L \o R("FORMAT_PROPERTIESSEPARATOR") \o L \o R("TAG_PROPERTIES_INTERACTIVE") \o L \o
      R("TAG_PROPERTIES_LIVE") \o L \o R("TAG_PROPERTIES_SET") \o L),
  String("FORMAT_RESTRICT",
      L \o R("FORMAT_RESTRICTSEPARATOR") \o L \o R("TAG_RESTRICT_FETCH") \o L \o
      R("TAG_RESTRICT_MIRROR") \o L \o R("TAG_RESTRICT_PRIMARYURI") \o L \o
      R("TAG_RESTRICT_BINCHECKS") \o L \o R("TAG_RESTRICT_STRIP") \o L \o R("TAG_RESTRICT_TEST") \o
      L \o R("TAG_RESTRICT_USERPRIV") \o L \o R("TAG_RESTRICT_INSTALLSOURCES") \o L \o
      R("TAG_RESTRICT_BINDIST") \o L \o R("TAG_RESTRICT_PARALLEL") \o L),
  String("FORMAT_PROPRESTRICT",
      Unless("NO_RESTRICTIONS") \o L \o R("FORMAT_PROPERTIES") \o R("FORMAT_RESTRICT") \o L \o
      R("COLOR_RESET") \o L \o Fi),
  String("FORMAT_BINARY",
      Unless("NO_BINARY") \o L \o R("COLOR_BINARY") \o L \o R("FORMAT_TBZ") \o L \o
      R("COLOR_BINARY") \o L \o R("FORMAT_GPKG") \o L \o R("COLOR_BINARY") \o L \o
      R("FORMAT_PAK") \o L \o R("COLOR_BINARY") \o L \o R("COLOR_RESET") \o L \o Fi) >>

VersionFormats == <<
  String("FORMAT_TBZ", L \o R("COLOR_TBZ") \o L \o R("TAG_TBZ") \o L \o R("COLOR_RESET") \o L),
  String("FORMAT_GPKG",
      L \o R("COLOR_GPKG") \o L \o R("TAG_GPKG") \o L \o R("TAG_MULTIGPKG") \o L \o
      R("COLOR_GPKGCOUNT") \o L \o R("COLOR_RESET") \o L),
  String("FORMAT_PAK",
      L \o R("COLOR_PAK") \o L \o R("TAG_PAK") \o L \o R("TAG_MULTIPAK") \o L \o
      R("COLOR_PAKCOUNT") \o L \o R("COLOR_RESET") \o L),
  String("FORMAT_SLOT", L \o R("COLOR_SLOTS") \o L \o R("COLOR_RESET") \o L),
  String("MARKEDVERSION", L \o R("COLOR_MARKED_VERSION") \o L \o R("COLOR_RESET") \o L),
  String("FORMAT_PVERSION",
      L \o R("MARK_INSTALLED") \o L \o R("MARK_UPGRADE") \o L \o R("MARK_VERSIONS") \o L),
  String("FORMAT_VERSION_END", L \o R("COLOR_RESET") \o L),
  String("FORMAT_VERSIONO_END",
      If("PRINT_SLOTS") \o L \o If("COLORED_SLOTS") \o L \o R("COLOR_RESET") \o L \o
      If("COLON_SLOTS") \o L \o R("COLOR_SLOTS") \o L \o Else \o L \o R("COLOR_SLOTS") \o L \o
      Fi \o Else \o If("COLON_SLOTS") \o L \o Else \o L \o Fi \o Fi \o L \o Fi \o
      R("FORMAT_VERSION_END")),
  String("FORMAT_VERSIONS_END",
      If("PRINT_SLOTS") \o L \o If("COLORED_SLOTS") \o L \o R("COLOR_RESET") \o L \o
      If("COLON_SLOTS") \o L \o R("COLOR_SLOTS") \o L \o Else \o L \o R("COLOR_SLOTS") \o L \o
      Fi \o Else \o If("COLON_SLOTS") \o L \o Else \o L \o Fi \o Fi \o L \o Fi \o
      R("FORMAT_VERSION_END")),
  String("PVERSION", R("FORMAT_PVERSION") \o R("FORMAT_VERSION_END")),
  String("PVERSIONO", R("FORMAT_PVERSION") \o R("FORMAT_VERSIONO_END")),
  String("PVERSIONS", R("FORMAT_PVERSION") \o R("FORMAT_VERSIONS_END")),
  String("AVERSION", R("FORMAT_STABILITY") \o R("FORMAT_PVERSION") \o R("FORMAT_VERSION_END")),
  String("AVERSIONO", R("FORMAT_STABILITY") \o R("FORMAT_PVERSION") \o R("FORMAT_VERSIONO_END")),
  String("AVERSIONS", R("FORMAT_STABILITY") \o R("FORMAT_PVERSION") \o R("FORMAT_VERSIONS_END")) >>

VersionListFormats == <<
  String("IVERSIONS", L \o R("COLOR_INST_VERSION") \o L \o R("FORMAT_VERSIONS_END")),
  String("OVERLAYVER", L),
  String("PVERSIONS_VERBOSE",
      R("PVERSIONS") \o R("FORMAT_PROPRESTRICT") \o R("FORMAT_BINARY") \o R("OVERLAYVER")),
  String("AVERSIONS_VERBOSE",
      R("AVERSIONS") \o R("FORMAT_PROPRESTRICT") \o R("FORMAT_BINARY") \o R("OVERLAYVER")),
  String("IVERSIONS_VERBOSE",
      R("IVERSIONS") \o R("FORMAT_PROPRESTRICT") \o R("FORMAT_BINARY") \o R("OVERLAYVER")),
  String("PVERSIONO_VERBOSE",
      R("PVERSIONO") \o R("FORMAT_PROPRESTRICT") \o R("FORMAT_BINARY") \o R("OVERLAYVER")),
  String("AVERSIONO_VERBOSE",
      R("AVERSIONO") \o R("FORMAT_PROPRESTRICT") \o R("FORMAT_BINARY") \o R("OVERLAYVER")),
  String("PVERSION_VERBOSE",
      R("PVERSION") \o R("FORMAT_PROPRESTRICT") \o R("FORMAT_BINARY") \o R("OVERLAYVER")),
  String("AVERSION_VERBOSE",
      R("AVERSION") \o R("FORMAT_PROPRESTRICT") \o R("FORMAT_BINARY") \o R("OVERLAYVER")),
  String("PVERSIONS_COMPACT", R("PVERSIONS") \o R("FORMAT_BINARY") \o R("OVERLAYVER")),
  String("AVERSIONS_COMPACT", R("AVERSIONS") \o R("FORMAT_BINARY") \o R("OVERLAYVER")),
  String("IVERSIONS_COMPACT", R("IVERSIONS") \o R("FORMAT_BINARY") \o R("OVERLAYVER")),
  String("FORMAT_BEFORE_KEYWORDS", L \o R("COLOR_NORMAL") \o L \o R("COLUMN_KEYWORDS") \o L),
  String("FORMAT_AFTER_KEYWORDS", L \o R("COLOR_NORMAL") \o L \o R("COLOR_NORMAL_END") \o L),
  String("FORMAT_NEWLINE",
      If("RESET_ALL_LINES") \o L \o R("COLOR_RESET_BG") \o L \o Else \o L \o Fi),
  String("COLUMN_KEYWORDS", T("22")), String("COLUMN_SLOT", R("C_COLUMN_TITLE")),
  String("COLUMN_SLOT_AFTER", T("12")), String("COLUMN_STABILITY", T("7")),
  String("COLUMN_STABILITY_AFTER", T("12")) >>

ColumnFormats == <<
  String("COLUMN_SLOT_APPEND", T("22")), String("COLUMN_VER_APPEND", R("COLUMN_SLOT_APPEND")),
  String("COLUMN_USE", T("7")), String("DIFF_COLUMNA", T("6")), String("DIFF_COLUMNB", T("9")),
  String("FORMAT_VER_LINESKIP", R("FORMAT_NEWLINE") \o L \o R("I18N_COLUMN_AVAILABLE_TITLE") \o L),
  String("FORMAT_VERSION_KEYWORDS_NORMAL",
      If("PRINT_KEYWORDS") \o If("VERSION_KEYWORDS_NORMAL") \o R("FORMAT_BEFORE_KEYWORDS") \o
      If("USE_EFFECTIVE_KEYWORDS") \o R("FORMAT_KEYWORDSS") \o Else \o R("FORMAT_KEYWORDS") \o
      Fi \o R("FORMAT_AFTER_KEYWORDS") \o Fi \o Fi),
  String("FORMAT_IUSE_NORMAL",
      If("PRINT_IUSE") \o If("VERSION_IUSE_NORMAL") \o L \o R("FORMAT_BEFORE_IUSE") \o
      R("FORMAT_VERSION_IUSE") \o R("FORMAT_AFTER_IUSE") \o L \o Fi \o Fi),
  String("FORMAT_REQUIRED_USE_NORMAL",
      If("PRINT_IUSE") \o If("VERSION_IUSE_NORMAL") \o L \o R("FORMAT_BEFORE_REQUIRED_USE") \o
      R("FORMAT_VERSION_REQUIRED_USE") \o R("FORMAT_AFTER_REQUIRED_USE") \o L \o Fi \o Fi),
  String("FORMAT_DEPS_NORMAL",
      If("DEP") \o If("VERSION_DEPS_NORMAL") \o L \o R("FORMAT_VER_LINESKIP") \o L \o
      R("COLOR_AVAILABLE_TITLE") \o L \o R("I18N_DEPEND") \o L \o R("COLOR_RESET") \o L \o
      R("I18N_COLUMN_AVAILABLE_CONTENT") \o L \o R("FORMAT_DEPEND") \o L \o
      R("FORMAT_VER_LINESKIP") \o L \o R("COLOR_AVAILABLE_TITLE") \o L \o R("I18N_RDEPEND") \o L \o
      R("COLOR_RESET") \o L \o R("I18N_COLUMN_AVAILABLE_CONTENT") \o L \o R("FORMAT_RDEPEND") \o
      L \o R("FORMAT_VER_LINESKIP") \o L \o R("COLOR_AVAILABLE_TITLE") \o L \o R("I18N_PDEPEND") \o
      L \o R("COLOR_RESET") \o L \o R("I18N_COLUMN_AVAILABLE_CONTENT") \o L \o
      R("FORMAT_PDEPEND") \o L \o R("FORMAT_VER_LINESKIP") \o L \o R("COLOR_AVAILABLE_TITLE") \o
      L \o R("I18N_BDEPEND") \o L \o R("COLOR_RESET") \o L \o R("I18N_COLUMN_AVAILABLE_CONTENT") \o
      L \o R("FORMAT_BDEPEND") \o L \o R("FORMAT_VER_LINESKIP") \o L \o
      R("COLOR_AVAILABLE_TITLE") \o L \o R("I18N_IDEPEND") \o L \o R("COLOR_RESET") \o L \o
      R("I18N_COLUMN_AVAILABLE_CONTENT") \o L \o R("FORMAT_IDEPEND") \o L \o Fi \o Fi),
  String("FORMAT_MASKREASONS_NORMAL",
      If("PRINT_MASKREASONS") \o If("MASKREASONS_NORMAL") \o L \o If("WIDETERM") \o L \o Else \o
      R("FORMAT_NEWLINE") \o Fi \o L \o R("COLOR_MASKREASONS") \o L \o R("COLOR_RESET") \o L \o
      Fi \o Fi) >>

VerboseFormats == <<
  String("FORMAT_VERSION_KEYWORDS_VERBOSE",
      If("PRINT_KEYWORDS") \o If("VERSION_KEYWORDS_VERBOSE") \o Unless("PRINT_ALWAYS") \o L \o
      Fi \o R("FORMAT_VER_LINESKIP") \o L \o R("COLOR_AVAILABLE_TITLE") \o L \o
      R("I18N_KEYWORDS") \o L \o R("COLOR_RESET") \o L \o If("PRINT_ALWAYS") \o L \o Fi \o L \o
      R("I18N_COLUMN_AVAILABLE_CONTENT") \o L \o R("FORMAT_KEYWORDS") \o L \o R("COLOR_RESET") \o
      L \o Unless("PRINT_ALWAYS") \o L \o Fi \o R("FORMAT_VER_LINESKIP") \o L \o
      R("COLOR_AVAILABLE_TITLE") \o L \o R("I18N_KEYWORDSS") \o L \o R("COLOR_RESET") \o L \o
      If("PRINT_ALWAYS") \o L \o R("I18N_COLUMN_AVAILABLE_CONTENT") \o L \o
      R("FORMAT_KEYWORDS_EQUAL") \o L \o Fi \o L \o R("I18N_COLUMN_AVAILABLE_CONTENT") \o L \o
      R("FORMAT_KEYWORDSS") \o L \o R("COLOR_RESET") \o L \o Fi \o Fi),
  String("FORMAT_IUSE_VERBOSE",
      If("PRINT_IUSE") \o If("VERSION_IUSE_VERBOSE") \o Unless("PRINT_ALWAYS") \o L \o Fi \o
      R("FORMAT_VER_LINESKIP") \o L \o R("COLOR_AVAILABLE_TITLE") \o L \o R("I18N_IUSE") \o L \o
      R("COLOR_RESET") \o L \o If("PRINT_ALWAYS") \o L \o Fi \o L \o
      R("I18N_COLUMN_AVAILABLE_CONTENT") \o L \o R("FORMAT_VERSION_IUSE") \o L \o
      R("COLOR_RESET") \o L \o Fi \o Fi),
  String("FORMAT_REQUIRED_USE_VERBOSE",
      If("PRINT_IUSE") \o If("VERSION_IUSE_VERBOSE") \o Unless("PRINT_ALWAYS") \o L \o Fi \o
      R("FORMAT_VER_LINESKIP") \o L \o R("COLOR_AVAILABLE_TITLE") \o L \o R("I18N_REQUIRED_USE") \o
      L \o R("COLOR_RESET") \o L \o If("PRINT_ALWAYS") \o L \o Fi \o L \o
      R("I18N_COLUMN_AVAILABLE_CONTENT") \o L \o R("FORMAT_VERSION_REQUIRED_USE") \o L \o
      R("COLOR_RESET") \o L \o Fi \o Fi),
  String("FORMAT_DEPS_VERBOSE",
      If("DEP") \o If("VERSION_DEPS_VERBOSE") \o Unless("PRINT_ALWAYS") \o L \o Fi \o
      R("FORMAT_VER_LINESKIP") \o L \o R("COLOR_AVAILABLE_TITLE") \o L \o R("I18N_DEPEND") \o L \o
      R("COLOR_RESET") \o L \o If("PRINT_ALWAYS") \o L \o Fi \o L \o
      R("I18N_COLUMN_AVAILABLE_CONTENT") \o L \o R("FORMAT_DEPEND_VERBOSE") \o L \o
      Unless("PRINT_ALWAYS") \o L \o Fi \o R("FORMAT_VER_LINESKIP") \o L \o
      R("COLOR_AVAILABLE_TITLE") \o L \o R("I18N_RDEPEND") \o L \o R("COLOR_RESET") \o L \o
      If("PRINT_ALWAYS") \o L \o Fi \o L \o R("I18N_COLUMN_AVAILABLE_CONTENT") \o L \o
      R("FORMAT_RDEPEND_VERBOSE") \o L \o Unless("PRINT_ALWAYS") \o L \o Fi \o
      R("FORMAT_VER_LINESKIP") \o L \o R("COLOR_AVAILABLE_TITLE") \o L \o R("I18N_PDEPEND") \o L \o
      R("COLOR_RESET") \o L \o If("PRINT_ALWAYS") \o L \o Fi \o L \o
      R("I18N_COLUMN_AVAILABLE_CONTENT") \o L \o R("FORMAT_PDEPEND_VERBOSE") \o L \o
      Unless("PRINT_ALWAYS") \o L \o Fi \o R("FORMAT_VER_LINESKIP") \o L \o
      R("COLOR_AVAILABLE_TITLE") \o L \o R("I18N_BDEPEND") \o L \o R("COLOR_RESET") \o L \o
      If("PRINT_ALWAYS") \o L \o Fi \o L \o R("I18N_COLUMN_AVAILABLE_CONTENT") \o L \o
      R("FORMAT_BDEPEND_VERBOSE") \o L \o Unless("PRINT_ALWAYS") \o L \o Fi \o
      R("FORMAT_VER_LINESKIP") \o L \o R("COLOR_AVAILABLE_TITLE") \o L \o R("I18N_IDEPEND") \o L \o
      R("COLOR_RESET") \o L \o If("PRINT_ALWAYS") \o L \o Fi \o L \o
      R("I18N_COLUMN_AVAILABLE_CONTENT") \o L \o R("FORMAT_IDEPEND_VERBOSE") \o L \o Fi \o Fi),
  String("FORMAT_SRC_URI_VERBOSE",
      If("PRINT_SRC_URI") \o Unless("PRINT_ALWAYS") \o L \o Fi \o R("FORMAT_VER_LINESKIP") \o L \o
      R("COLOR_AVAILABLE_TITLE") \o L \o R("I18N_SRC_URI") \o L \o R("COLOR_RESET") \o L \o
      R("I18N_COLUMN_AVAILABLE_CONTENT") \o L \o If("PRINT_ALWAYS") \o L \o Fi \o
      R("FORMAT_SRC_URI") \o L \o Fi),
  String("FORMAT_EAPI_VERBOSE",
      If("PRINT_EAPI") \o R("FORMAT_VER_LINESKIP") \o L \o R("COLOR_AVAILABLE_TITLE") \o L \o
      R("I18N_EAPI") \o L \o R("COLOR_RESET") \o L \o R("I18N_COLUMN_AVAILABLE_CONTENT") \o L \o
      R("FORMAT_EAPI") \o Fi) >>

AppendixFormats == <<
  String("FORMAT_MASKREASONS_VERBOSE",
      If("PRINT_MASKREASONS") \o If("MASKREASONS_VERBOSE") \o Unless("PRINT_ALWAYS") \o L \o Fi \o
      R("FORMAT_VER_LINESKIP") \o L \o R("COLOR_AVAILABLE_TITLE") \o L \o R("I18N_MASK") \o L \o
      R("COLOR_RESET") \o L \o If("PRINT_ALWAYS") \o L \o Fi \o If("WIDETERM") \o L \o
      R("I18N_COLUMN_AVAILABLE_CONTENT") \o L \o Else \o R("FORMAT_NEWLINE") \o Fi \o L \o
      R("COLOR_MASKREASONS") \o L \o R("COLOR_RESET") \o L \o Fi \o Fi),
  String("FORMAT_VERSION_APPENDIX_NORMAL",
      R("FORMAT_VERSION_KEYWORDS_NORMAL") \o R("FORMAT_IUSE_NORMAL") \o
      R("FORMAT_REQUIRED_USE_NORMAL") \o R("FORMAT_DEPS_NORMAL") \o R("FORMAT_MASKREASONS_NORMAL")),
  String("FORMAT_VERSION_APPENDIX_VERBOSE",
      R("FORMAT_VERSION_KEYWORDS_VERBOSE") \o R("FORMAT_IUSE_VERBOSE") \o
      R("FORMAT_REQUIRED_USE_VERBOSE") \o R("FORMAT_DEPS_VERBOSE") \o
      R("FORMAT_SRC_URI_VERBOSE") \o R("FORMAT_EAPI_VERBOSE") \o R("FORMAT_MASKREASONS_VERBOSE")),
  String("FORMAT_VERSION_APPENDIX",
      L \o R("FORMAT_VERSION_APPENDIX_VERBOSE") \o L \o R("FORMAT_VERSION_APPENDIX_NORMAL") \o L),
  String("FORMAT_SLOTLINESKIP_VERSIONLINES",
      R("FORMAT_NEWLINE") \o L \o R("COLUMN_SLOT") \o L \o R("FORMAT_SLOT")),
  String("FORMAT_SLOTLINESKIP",
      R("FORMAT_NEWLINE") \o L \o R("COLUMN_SLOT") \o L \o R("FORMAT_SLOT") \o L \o
      R("COLUMN_SLOT_AFTER") \o L),
  String("FORMAT_VERSLINESKIP",
      R("FORMAT_NEWLINE") \o L \o R("COLUMN_STABILITY") \o L \o R("FORMAT_STABILITY") \o L \o
      R("COLUMN_STABILITY_AFTER") \o L),
  String("FORMAT_INST_LINESKIP", R("FORMAT_NEWLINE") \o L \o R("I18N_COLUMN_INST_TITLE") \o L),
  String("VSORTL",
      R("FORMAT_VERSLINESKIP") \o L \o R("COLUMN_SLOT_APPEND") \o L \o R("PVERSIONS_VERBOSE") \o
      L \o R("FORMAT_VERSION_APPENDIX") \o L),
  String("VSORT", R("AVERSIONS_VERBOSE") \o L),
  String("SSORTL",
      L \o R("FORMAT_SLOTLINESKIP_VERSIONLINES") \o L \o R("FORMAT_VERSLINESKIP") \o L \o
      R("COLUMN_VER_APPEND") \o L \o R("PVERSIONO_VERBOSE") \o L \o R("FORMAT_VERSION_APPENDIX") \o
      L),
  String("SSORT",
      L \o R("FORMAT_SLOT") \o L \o R("FORMAT_SLOTLINESKIP") \o L \o R("AVERSIONO_VERBOSE") \o L),
  String("FORMAT_COLL", R("FORMAT_BEFORE_COLL") \o R("FORMAT_COLLIUSE") \o R("FORMAT_AFTER_COLL")),
  String("FORMAT_COLL_SEP",
      R("FORMAT_BEFORE_COLL_SEP") \o R("FORMAT_COLLIUSE") \o R("FORMAT_AFTER_COLL_SEP")),
  String("FORMAT_COLL_VERBOSE",
      Unless("PRINT_ALWAYS") \o L \o Fi \o R("FORMAT_NEWLINE") \o L \o R("I18N_COLUMN_TITLE") \o
      L \o R("COLOR_TITLE") \o L \o R("I18N_IUSEALLVERSIONS") \o L \o R("COLOR_RESET") \o L \o
      If("PRINT_ALWAYS") \o L \o Fi \o L \o R("I18N_COLUMN_CONTENT") \o L \o
      R("FORMAT_COLLIUSE") \o L \o R("COLOR_RESET") \o L) >>

CollectFormats == <<
  String("FORMAT_COLL_VERBOSE_SEP", R("FORMAT_COLL_VERBOSE")),
  String("FORMAT_COLL_IUSE",
      If("PRINT_IUSE") \o L \o R("FORMAT_COLL_VERBOSE") \o L \o R("FORMAT_COLL_VERBOSE_SEP") \o
      L \o R("FORMAT_COLL") \o L \o R("FORMAT_COLL_SEP") \o L \o Fi),
  String("FORMAT_COLL_IUSE_LIST",
      If("PRINT_IUSE") \o Unless("VERSION_IUSE_NORMAL") \o L \o R("FORMAT_COLL_SEP") \o L \o
      If("VERSION_IUSE_VERBOSE") \o L \o Else \o L \o Fi \o Else \o
      Unless("VERSION_IUSE_VERBOSE") \o L \o Fi \o Fi \o Unless("VERSION_IUSE_VERBOSE") \o
      R("FORMAT_COLL_VERBOSE_SEP") \o L \o Fi \o Fi),
  String("INORMAL",
      R("IVERSIONS_VERBOSE") \o L \o R("COLOR_DATE") \o L \o R("COLOR_RESET") \o L \o
      R("FORMAT_INST_USEFLAGS") \o L \o R("FORMAT_INST_LINESKIP") \o L),
  String("ICOMPACT",
      R("IVERSIONS_COMPACT") \o L \o R("COLOR_NORMAL") \o L \o R("COLOR_DATE") \o L \o
      R("COLOR_RESET") \o L),
  String("IVERBOSE",
      L \o R("COLOR_INST_TITLE") \o L \o R("I18N_VERSION") \o L \o R("COLOR_RESET") \o L \o
      R("I18N_COLUMN_INST_CONTENT") \o L \o R("IVERSIONS_VERBOSE") \o L \o R("COLOR_RESET") \o L \o
      R("FORMAT_INST_LINESKIP") \o L \o R("COLOR_INST_TITLE") \o L \o R("I18N_DATE") \o L \o
      R("COLOR_RESET") \o L \o R("I18N_COLUMN_INST_CONTENT") \o L \o R("COLOR_DATE") \o L \o
      R("COLOR_RESET") \o L \o R("FORMAT_INST_LINESKIP") \o L \o R("COLOR_INST_TITLE") \o L \o
      R("I18N_USE") \o L \o R("COLOR_RESET") \o L \o R("I18N_COLUMN_INST_CONTENT") \o L \o
      If("OMIT_EXPAND") \o L \o Else \o If("COREQ_USE_EXPAND") \o L \o Else \o L \o Fi \o Fi \o
      L \o If("DEP") \o L \o R("FORMAT_INST_LINESKIP") \o L \o R("COLOR_INST_TITLE") \o L \o
      R("I18N_DEPEND") \o L \o R("COLOR_RESET") \o L \o R("I18N_COLUMN_INST_CONTENT") \o L \o
      R("FORMAT_DEPEND_VERBOSE") \o L \o R("FORMAT_INST_LINESKIP") \o L \o R("COLOR_INST_TITLE") \o
      L \o R("I18N_RDEPEND") \o L \o R("COLOR_RESET") \o L \o R("I18N_COLUMN_INST_CONTENT") \o L \o
      R("FORMAT_RDEPEND_VERBOSE") \o L \o R("FORMAT_INST_LINESKIP") \o L \o
      R("COLOR_INST_TITLE") \o L \o R("I18N_PDEPEND") \o L \o R("COLOR_RESET") \o L \o
      R("I18N_COLUMN_INST_CONTENT") \o L \o R("FORMAT_PDEPEND_VERBOSE") \o L \o
      R("FORMAT_INST_LINESKIP") \o L \o R("COLOR_INST_TITLE") \o L \o R("I18N_BDEPEND") \o L \o
      R("COLOR_RESET") \o L \o R("I18N_COLUMN_INST_CONTENT") \o L \o R("FORMAT_BDEPEND_VERBOSE") \o
      L \o R("FORMAT_INST_LINESKIP") \o L \o R("COLOR_INST_TITLE") \o L \o R("I18N_IDEPEND") \o
      L \o R("COLOR_RESET") \o L \o R("I18N_COLUMN_INST_CONTENT") \o L \o
      R("FORMAT_IDEPEND_VERBOSE") \o L \o Fi \o If("PRINT_EAPI") \o R("FORMAT_INST_LINESKIP") \o
      L \o R("COLOR_INST_TITLE") \o L \o R("I18N_EAPI") \o L \o R("COLOR_RESET") \o L \o
      R("I18N_COLUMN_INST_CONTENT") \o L \o R("FORMAT_EAPI") \o Fi \o L \o
      R("FORMAT_INST_LINESKIP") \o L),
  String("FORMAT_AVAILABLEVERSIONS",
      L \o R("FORMAT_COLL_IUSE_LIST") \o L \o R("FORMAT_COLL_IUSE") \o L) >>

InstalledFormats == <<
  String("FORMAT_INST_USEFLAGS",
      L \o R("COLOR_NORMAL") \o L \o If("OMIT_EXPAND") \o L \o Else \o If("COREQ_USE_EXPAND") \o
      L \o Else \o L \o Fi \o Fi \o L \o R("COLOR_NORMAL") \o L \o R("COLOR_NORMAL_END") \o L),
  String("INSTALLEDVERSIONS_NORMAL", L), String("INSTALLEDVERSIONS_COMPACT", L),
  String("INSTALLEDVERSIONS_VERBOSE", L),
  String("INSTALLEDVERSIONS",
      L \o R("INSTALLEDVERSIONS_VERBOSE") \o L \o R("INSTALLEDVERSIONS_NORMAL") \o L),
  String("FORMATLINE_INSTALLEDVERSIONS",
      Unless("PRINT_ALWAYS") \o L \o Fi \o L \o R("I18N_COLUMN_TITLE") \o L \o R("COLOR_TITLE") \o
      L \o R("I18N_INSTALLEDVERSIONS") \o L \o R("COLOR_RESET") \o L \o If("PRINT_ALWAYS") \o L \o
      Fi \o L \o R("I18N_COLUMN_CONTENT") \o L \o R("INSTALLEDVERSIONS") \o If("PRINT_ALWAYS") \o
      L \o R("I18N_COLUMN_CONTENT") \o L \o R("I18N_NONE") \o L \o R("FORMAT_NEWLINE") \o Else \o
      R("FORMAT_NEWLINE") \o L \o Fi),
  String("DIFF_FORMATLINE_INSTALLEDVERSIONS",
      L \o R("INSTALLEDVERSIONS_COMPACT") \o L \o R("COLOR_NORMAL") \o L \o
      R("COLOR_NORMAL_END") \o L),
  String("FORMAT_FINISH", L),
  String("FORMAT_NAME",
      L \o R("COLOR_CATEGORY_SYSTEM") \o L \o R("COLOR_CATEGORY_PROFILE") \o L \o
      R("COLOR_CATEGORY_WORLD") \o L \o R("COLOR_CATEGORY_WORLD_SETS") \o L \o
      R("COLOR_CATEGORY") \o L \o R("COLOR_NORMAL") \o L \o R("COLOR_MARKED_NAME") \o L \o
      R("COLOR_WORLD") \o L \o R("COLOR_WORLD_SETS") \o L \o R("COLOR_NAME") \o L \o
      R("COLOR_RESET") \o L),
  String("FORMAT_HEADER",
      L \o R("COLOR_NORMAL") \o L \o R("TAG_UPGRADE") \o L \o R("TAG_DOWNGRADE") \o L \o
      R("TAG_INSTALLED") \o L \o R("COLOR_NORMAL") \o L \o R("COLOR_NORMAL_END") \o L \o
      R("COLOR_UNINST_TAG") \o L \o R("STRING_PLAIN_UNINSTALLED") \o L),
  String("FORMAT_HEADER_VERBOSE",
      L \o R("COLOR_INST_TAG") \o L \o R("STRING_PLAIN_INSTALLED") \o L \o R("COLOR_UNINST_TAG") \o
      L \o R("STRING_PLAIN_UNINSTALLED") \o L \o R("COLOR_RESET") \o L),
  String("FORMAT_HEADER_COMPACT",
      L \o R("COLOR_NORMAL") \o L \o R("TAG_UPGRADE") \o L \o R("TAG_DOWNGRADE") \o L \o
      R("TAG_INSTALLED") \o L \o R("TAG_UNINSTALLED") \o L \o R("COLOR_NORMAL") \o L \o
      R("COLOR_NORMAL_END") \o L) >>

HeaderFormats == <<
  String("DIFF_FORMAT_HEADER_NEW",
      L \o R("COLOR_NORMAL") \o L \o R("TAG_STABILIZE") \o L \o R("TAG_UPGRADE") \o L \o
      R("TAG_DOWNGRADE") \o L \o R("TAG_NEW") \o L \o R("COLOR_NORMAL") \o L \o
      R("COLOR_NORMAL_END") \o L \o R("DIFF_COLUMNA") \o L \o R("DIFF_COLOR_NEW") \o L \o
      R("DIFF_STRING_NEW") \o L \o R("COLOR_RESET") \o L \o R("DIFF_COLUMNB") \o L),
  String("DIFF_FORMAT_HEADER_DELETE",
      L \o R("COLOR_NORMAL") \o L \o R("COLOR_DOWNGRADE") \o L \o R("CHAR_DOWNGRADE") \o L \o
      R("COLOR_NORMAL") \o L \o R("COLOR_NORMAL_END") \o L \o R("DIFF_COLUMNA") \o L \o
      R("DIFF_COLOR_DELETE") \o L \o R("DIFF_STRING_DELETE") \o L \o R("COLOR_RESET") \o L \o
      R("DIFF_COLUMNB") \o L),
  String("DIFF_FORMAT_HEADER_CHANGED",
      L \o R("COLOR_NORMAL") \o L \o R("TAG_STABILIZE") \o L \o R("TAG_UPGRADE") \o L \o
      R("TAG_DOWNGRADE") \o L \o R("TAG_BETTER") \o L \o R("TAG_WORSE") \o L \o
      R("COLOR_NORMAL") \o L \o R("COLOR_NORMAL_END") \o L \o R("DIFF_COLUMNA") \o L \o
      R("DIFF_COLOR_CHANGED") \o L \o R("DIFF_STRING_CHANGED") \o L \o R("COLOR_RESET") \o L \o
      R("DIFF_COLUMNB") \o L),
  String("FORMAT_BEST_COMPACT",
      L \o If("NOBEST_COMPACT") \o R("FORMAT_NOBEST") \o Else \o L \o Fi \o L),
  String("FORMAT_BEST_CHANGE",
      L \o If("NOBEST_CHANGE") \o R("FORMAT_NOBEST_CHANGE") \o Else \o L \o Fi \o L),
  String("DIFF_FORMAT_BEST", L \o If("DIFF_NOBEST") \o R("FORMAT_NOBEST") \o Else \o L \o Fi \o L),
  String("DIFF_FORMAT_BEST_CHANGE",
      L \o If("DIFF_NOBEST_CHANGE") \o R("FORMAT_NOBEST_CHANGE") \o Else \o L \o Fi \o L),
  String("DIFF_FORMAT_OLDBEST_CHANGE",
      L \o If("DIFF_NOBEST_CHANGE") \o R("FORMAT_NOBEST_CHANGE") \o Else \o L \o Fi \o L) >>

NameLines == <<
  String("DIFF_FORMAT_CHANGED_VERSIONS",
      If("DIFF_PRINT_INSTALLED") \o R("DIFF_FORMATLINE_INSTALLEDVERSIONS") \o Fi \o
      R("DIFF_FORMAT_OLDBEST_CHANGE") \o L \o R("COLOR_NORMAL") \o L \o R("COLOR_NORMAL_END") \o
      L \o R("DIFF_FORMAT_BEST_CHANGE")),
  String("FORMAT_OVERLAYKEY", L),
  String("FORMATLINE_NAME",
      R("FORMAT_HEADER") \o L \o R("FORMAT_NAME") \o R("FORMAT_OVERLAYKEY") \o R("FORMAT_NEWLINE")),
  String("FORMATLINE_NAME_VERBOSE",
      R("FORMAT_HEADER_VERBOSE") \o L \o R("FORMAT_NAME") \o R("FORMAT_OVERLAYKEY") \o
      R("FORMAT_NEWLINE")),
  String("FORMATLINE_NAME_COMPACT",
      R("FORMAT_HEADER_COMPACT") \o L \o R("FORMAT_NAME") \o R("FORMAT_OVERLAYKEY")),
  String("DIFF_FORMATLINE_NAME_NEW", R("DIFF_FORMAT_HEADER_NEW") \o R("FORMAT_NAME") \o L),
  String("DIFF_FORMATLINE_NAME_DELETE", R("DIFF_FORMAT_HEADER_DELETE") \o R("FORMAT_NAME") \o L),
  String("DIFF_FORMATLINE_NAME_CHANGED", R("DIFF_FORMAT_HEADER_CHANGED") \o R("FORMAT_NAME") \o L),
  String("FORMATLINE_AVAILABLEVERSIONS",
      L \o R("I18N_COLUMN_TITLE") \o L \o R("COLOR_TITLE") \o L \o R("I18N_AVAILABLEVERSIONS") \o
      L \o R("COLOR_RESET") \o L \o R("I18N_COLUMN_CONTENT") \o L \o
      R("FORMAT_AVAILABLEVERSIONS") \o R("FORMAT_NEWLINE")),
  String("DIFF_FORMATLINE_BEST",
      L \o R("COLOR_NORMAL") \o L \o R("DIFF_FORMAT_BEST") \o L \o R("COLOR_NORMAL") \o L \o
      R("COLOR_NORMAL_END") \o L),
  String("DIFF_FORMATLINE_CHANGED_VERSIONS",
      L \o R("COLOR_NORMAL") \o L \o R("DIFF_FORMAT_CHANGED_VERSIONS") \o L \o R("COLOR_NORMAL") \o
      L \o R("COLOR_NORMAL_END") \o L),
  String("FORMATLINE_MARKEDVERSIONS",
      Unless("PRINT_ALWAYS") \o L \o Fi \o L \o R("I18N_COLUMN_TITLE") \o L \o R("COLOR_TITLE") \o
      L \o R("I18N_MARKED") \o L \o R("COLOR_RESET") \o L \o If("PRINT_ALWAYS") \o L \o Fi \o L \o
      R("I18N_COLUMN_CONTENT") \o L \o If("PRINT_ALWAYS") \o L \o R("FORMAT_NEWLINE") \o Else \o
      R("FORMAT_NEWLINE") \o L \o Fi),
  String("FORMATLINE_PACKAGESETS",
      Unless("PRINT_ALWAYS") \o L \o R("PRINT_SETNAMES") \o L \o Fi \o L \o
      R("I18N_COLUMN_TITLE") \o L \o R("COLOR_TITLE") \o L \o R("I18N_PACKAGESETS") \o L \o
      R("COLOR_RESET") \o L \o If("PRINT_ALWAYS") \o L \o R("PRINT_SETNAMES") \o L \o Fi \o L \o
      R("I18N_COLUMN_CONTENT") \o L \o R("COLOR_PACKAGESETS") \o L \o R("PRINT_SETNAMES") \o L \o
      Unless("RESET_ALL_LINES") \o L \o R("COLOR_RESET") \o L \o Fi \o If("PRINT_ALWAYS") \o L \o
      R("FORMAT_NEWLINE") \o Else \o R("FORMAT_NEWLINE") \o L \o Fi),
  String("FORMATLINE_HOMEPAGE",
      Unless("PRINT_ALWAYS") \o L \o Fi \o L \o R("I18N_COLUMN_TITLE") \o L \o R("COLOR_TITLE") \o
      L \o R("I18N_HOMEPAGE") \o L \o R("COLOR_RESET") \o L \o If("PRINT_ALWAYS") \o L \o Fi \o
      L \o R("I18N_COLUMN_CONTENT") \o L \o R("COLOR_NORMAL") \o L \o Unless("RESET_ALL_LINES") \o
      L \o R("COLOR_NORMAL_END") \o L \o Fi \o If("PRINT_ALWAYS") \o L \o R("FORMAT_NEWLINE") \o
      Else \o R("FORMAT_NEWLINE") \o L \o Fi),
  String("FORMATLINE_BUGS",
      If("PRINT_BUGS") \o Unless("PRINT_ALWAYS") \o L \o Fi \o L \o R("I18N_COLUMN_TITLE") \o L \o
      R("COLOR_TITLE") \o L \o R("I18N_FINDOPENBUGS") \o L \o R("COLOR_RESET") \o L \o
      If("PRINT_ALWAYS") \o L \o Fi \o L \o R("I18N_COLUMN_CONTENT") \o L \o R("COLOR_NORMAL") \o
      L \o Unless("RESET_ALL_LINES") \o L \o R("COLOR_NORMAL_END") \o L \o Fi \o
      If("PRINT_ALWAYS") \o L \o R("FORMAT_NEWLINE") \o Else \o R("FORMAT_NEWLINE") \o L \o Fi \o
      Fi) >>

DescriptionLines == <<
  String("FORMATLINE_DESCRIPTION",
      Unless("PRINT_ALWAYS") \o L \o Fi \o L \o R("I18N_COLUMN_TITLE") \o L \o R("COLOR_TITLE") \o
      L \o R("I18N_DESCRIPTION") \o L \o R("COLOR_RESET") \o L \o If("PRINT_ALWAYS") \o L \o Fi \o
      L \o R("I18N_COLUMN_CONTENT") \o L \o R("COLOR_NORMAL") \o L \o Unless("RESET_ALL_LINES") \o
      L \o R("COLOR_NORMAL_END") \o L \o Fi \o If("PRINT_ALWAYS") \o L \o R("FORMAT_NEWLINE") \o
      Else \o R("FORMAT_NEWLINE") \o L \o Fi),
  String("FORMATLINE_BEST",
      Unless("PRINT_ALWAYS") \o L \o Fi \o L \o R("I18N_COLUMN_TITLE") \o L \o R("COLOR_TITLE") \o
      L \o R("I18N_BESTVERSIONSSLOT") \o L \o R("COLOR_RESET") \o L \o If("PRINT_ALWAYS") \o L \o
      Fi \o L \o R("I18N_COLUMN_CONTENT") \o L \o If("PRINT_ALWAYS") \o L \o R("FORMAT_NEWLINE") \o
      Else \o R("FORMAT_NEWLINE") \o L \o Fi),
  String("FORMATLINE_RECOMMEND",
      Unless("PRINT_ALWAYS") \o L \o Fi \o L \o R("I18N_COLUMN_TITLE") \o L \o R("COLOR_TITLE") \o
      L \o R("I18N_RECOMMENDATION") \o L \o R("COLOR_RESET") \o L \o If("PRINT_ALWAYS") \o L \o
      Fi \o L \o R("I18N_COLUMN_CONTENT") \o L \o R("COLOR_UPGRADE_TEXT") \o L \o
      R("I18N_UPGRADE") \o L \o R("COLOR_RESET") \o L \o R("I18N_AND") \o L \o
      R("COLOR_DOWNGRADE_TEXT") \o L \o R("I18N_DOWNGRADE") \o Unless("RESET_ALL_LINES") \o L \o
      R("COLOR_RESET") \o L \o Fi \o L \o If("PRINT_ALWAYS") \o L \o R("FORMAT_NEWLINE") \o Else \o
      R("FORMAT_NEWLINE") \o L \o Fi),
  String("FORMATLINE_LICENSES",
      Unless("PRINT_ALWAYS") \o L \o Fi \o L \o R("I18N_COLUMN_TITLE") \o L \o R("COLOR_TITLE") \o
      L \o R("I18N_LICENSE") \o L \o R("COLOR_RESET") \o L \o If("PRINT_ALWAYS") \o L \o Fi \o L \o
      R("I18N_COLUMN_CONTENT") \o L \o R("COLOR_NORMAL") \o L \o Unless("RESET_ALL_LINES") \o L \o
      R("COLOR_NORMAL_END") \o L \o Fi \o If("PRINT_ALWAYS") \o L \o R("FORMAT_NEWLINE") \o Else \o
      R("FORMAT_NEWLINE") \o L \o Fi),
  String("DIFF_FORMATLINE",
      R("FORMAT_OVERLAYKEY") \o L \o R("COLOR_NORMAL") \o L \o R("COLOR_NORMAL_END") \o L \o
      R("FORMAT_FINISH")),
  String("FORMAT_ALL",
      L \o R("FORMATLINE_NAME") \o R("FORMATLINE_AVAILABLEVERSIONS") \o
      R("FORMATLINE_INSTALLEDVERSIONS") \o R("FORMATLINE_MARKEDVERSIONS") \o
      R("FORMATLINE_HOMEPAGE") \o R("FORMATLINE_DESCRIPTION") \o R("FORMAT_FINISH")),
  String("FORMAT_ALL_COMPACT",
      L \o R("FORMATLINE_NAME_COMPACT") \o L \o R("COLOR_NORMAL") \o L \o R("COLOR_NORMAL_END") \o
      L \o R("INSTALLEDVERSIONS_COMPACT") \o L \o R("FORMAT_BEST_CHANGE") \o L \o
      R("FORMAT_BEST_COMPACT") \o L \o R("COLOR_NORMAL") \o L \o R("COLOR_NORMAL_END") \o L \o
      R("FORMAT_FINISH")),
  String("FORMAT_ALL_VERBOSE",
      L \o R("FORMATLINE_NAME_VERBOSE") \o R("FORMATLINE_AVAILABLEVERSIONS") \o
      R("FORMATLINE_INSTALLEDVERSIONS") \o R("FORMATLINE_BEST") \o R("FORMATLINE_RECOMMEND") \o
      R("FORMATLINE_MARKEDVERSIONS") \o R("FORMATLINE_PACKAGESETS") \o R("FORMATLINE_HOMEPAGE") \o
      R("FORMATLINE_BUGS") \o R("FORMATLINE_DESCRIPTION") \o R("FORMATLINE_LICENSES") \o
      R("FORMAT_FINISH")),
  String("FORMAT_VERSION_ETCAT", L) >>

WholeFormats == <<
  String("FORMAT_ETCAT", L), String("FORMAT", R("FORMAT_ALL")),
  String("FORMAT_COMPACT", R("FORMAT_ALL_COMPACT")),
  String("FORMAT_VERBOSE", R("FORMAT_ALL_VERBOSE")),
  String("FORMAT_TEST_OBSOLETE", R("FORMAT_ALL_COMPACT")),
  String("DIFF_FORMAT_ALL_NEW",
      R("DIFF_FORMATLINE_NAME_NEW") \o R("DIFF_FORMATLINE_BEST") \o R("DIFF_FORMATLINE")),
  String("DIFF_FORMAT_ALL_DELETE",
      R("DIFF_FORMATLINE_NAME_DELETE") \o R("DIFF_FORMATLINE_BEST") \o R("DIFF_FORMATLINE")),
  String("DIFF_FORMAT_ALL_CHANGED",
      R("DIFF_FORMATLINE_NAME_CHANGED") \o R("DIFF_FORMATLINE_CHANGED_VERSIONS") \o
      R("DIFF_FORMATLINE")),
  String("DIFF_FORMAT_NEW", R("DIFF_FORMAT_ALL_NEW")),
  String("DIFF_FORMAT_DELETE", R("DIFF_FORMAT_ALL_DELETE")),
  String("DIFF_FORMAT_CHANGED", R("DIFF_FORMAT_ALL_CHANGED")),
  String("FORMAT_INSTALLATION_DATE", L), String("FORMAT_SHORT_INSTALLATION_DATE", L),
  String("XML_KEYWORDS", T("none")), String("XML_OVERLAY", T("false")), String("XML_DATE", L),
  String("FORMAT_MASKREASONS_LINESKIP",
      If("WIDETERM") \o L \o Else \o R("FORMAT_NEWLINE") \o L \o R("COLOR_MASKREASONS") \o L \o Fi),
  String("FORMAT_MASKREASONS_SEP",
      If("WIDETERM") \o L \o Else \o R("FORMAT_NEWLINE") \o R("FORMAT_NEWLINE") \o L \o
      R("COLOR_MASKREASONS") \o L \o Fi),
  String("FORMAT_MASKREASONSS_LINESKIP",
      If("WIDETERM") \o R("FORMAT_VER_LINESKIP") \o L \o R("I18N_COLUMN_AVAILABLE_CONTENT") \o L \o
      Else \o R("FORMAT_NEWLINE") \o Fi \o L \o R("COLOR_MASKREASONS") \o L),
  String("FORMAT_MASKREASONSS_SEP", R("FORMAT_NEWLINE") \o R("FORMAT_MASKREASONSS_LINESKIP")),
  String("FORMAT_BEFORE_SET_USE", L \o R("COLOR_SET_USE") \o L),
  String("FORMAT_AFTER_SET_USE", L \o R("COLOR_RESET") \o L),
  String("FORMAT_BEFORE_UNSET_USE", L \o R("COLOR_UNSET_USE") \o L),
  String("FORMAT_AFTER_UNSET_USE", L \o R("COLOR_RESET") \o L),
  String("FORMAT_BEFORE_USE_EXPAND_START", L \o R("COLOR_USE_EXPAND_START") \o L),
  String("FORMAT_BEFORE_USE_EXPAND_END", L),
  String("FORMAT_AFTER_USE_EXPAND",
      L \o R("COLOR_USE_EXPAND_START") \o L \o R("COLOR_USE_EXPAND_END") \o L) >>

ExpandFormats == <<
  String("FORMAT_BEFORE_IUSE_EXPAND_START", L \o R("COLOR_USE_EXPAND_START") \o L),
  String("FORMAT_BEFORE_IUSE_EXPAND_END", L \o R("COLOR_VERSION_IUSE") \o L),
  String("FORMAT_AFTER_IUSE_EXPAND",
      L \o R("COLOR_USE_EXPAND_START") \o L \o R("COLOR_USE_EXPAND_END") \o L),
  String("FORMAT_BEFORE_COLL_EXPAND_START", L \o R("COLOR_USE_EXPAND_START") \o L),
  String("FORMAT_BEFORE_COLL_EXPAND_END", L \o R("COLOR_COLL_IUSE") \o L),
  String("FORMAT_AFTER_COLL_EXPAND",
      L \o R("COLOR_USE_EXPAND_START") \o L \o R("COLOR_USE_EXPAND_END") \o L),
  String("FORMAT_BEFORE_IUSE", L \o R("COLOR_NORMAL") \o L \o R("COLOR_NORMAL_END") \o L),
  String("FORMAT_AFTER_IUSE", L \o R("COLOR_NORMAL") \o L \o R("COLOR_NORMAL_END") \o L),
  String("FORMAT_BEFORE_REQUIRED_USE", L \o R("COLOR_NORMAL") \o L \o R("COLOR_NORMAL_END") \o L),
  String("FORMAT_AFTER_REQUIRED_USE", L \o R("COLOR_NORMAL") \o L \o R("COLOR_NORMAL_END") \o L),
  String("FORMAT_BEFORE_COLL", L \o R("COLOR_USE_COLL") \o L),
  String("FORMAT_AFTER_COLL", L \o R("COLOR_USE_COLL") \o L \o R("COLOR_RESET") \o L),
  String("FORMAT_BEFORE_COLL_SEP",
      R("FORMAT_NEWLINE") \o L \o R("COLUMN_USE") \o L \o R("COLOR_USE_COLL") \o L),
  String("FORMAT_AFTER_COLL_SEP", R("FORMAT_AFTER_COLL")),
  String("COLOR_MASKED",
      L \o R("BG0S") \o T("|") \o L \o R("BG1") \o T("|") \o L \o R("BG2") \o T("|") \o L \o
      R("BG3")),
  String("COLOR_UNSTABLE",
      L \o R("BG0S") \o T("|") \o L \o R("BG1") \o T("|") \o L \o R("BG2") \o T("|") \o L \o
      R("BG3")),
  String("COLOR_STABLE",
      L \o R("BG0S") \o T("|") \o L \o R("BG1") \o T("|") \o L \o R("BG2") \o T("|") \o L \o
      R("BG3")),
  String("FORMAT_COLOR_MASKED", L \o R("COLOR_MASKED") \o L),
  String("FORMAT_COLOR_UNSTABLE", L \o R("COLOR_UNSTABLE") \o L),
  String("FORMAT_COLOR_STABLE", L \o R("COLOR_STABLE") \o L), String("DUMMY", <<>>) >>

TitleTexts == Texts(<<
  "I18N_INSTALLEDVERSIONS", "I18N_VERSION", "I18N_DATE", "I18N_SRC_URI", "I18N_EAPI", "I18N_IUSE",
  "I18N_IUSEALLVERSIONS", "I18N_REQUIRED_USE", "I18N_USE", "I18N_DEPEND", "I18N_RDEPEND",
  "I18N_PDEPEND", "I18N_BDEPEND", "I18N_IDEPEND", "I18N_KEYWORDS", "I18N_KEYWORDSS", "I18N_MASK",
  "I18N_MARKED", "I18N_AVAILABLEVERSIONS", "I18N_BESTVERSIONSSLOT", "I18N_RECOMMENDATION" >>)

CountTexts == Texts(<<
  "I18N_UPGRADE", "I18N_DOWNGRADE", "I18N_AND", "I18N_NONE", "I18N_PACKAGESETS", "I18N_HOMEPAGE",
  "I18N_FINDOPENBUGS", "I18N_DESCRIPTION", "I18N_LICENSE", "C_COLUMN_TITLE", "I18N_COLUMN_TITLE",
  "C_COLUMN_CONTENT", "I18N_COLUMN_CONTENT", "C_COLUMN_INST_TITLE", "I18N_COLUMN_INST_TITLE",
  "C_COLUMN_INST_CONTENT", "I18N_COLUMN_INST_CONTENT", "C_COLUMN_AVAILABLE_TITLE",
  "I18N_COLUMN_AVAILABLE_TITLE", "C_COLUMN_AVAILABLE_CONTENT" >>)

OtherTexts == Texts(<<
  "I18N_COLUMN_AVAILABLE_CONTENT" >>)
-----------------------------------------------------------------------------
Options ==
  Paths \o CachefilesAndUsers \o PrintingOptions \o UpdateOptions \o IuseAndKeywordsOptions \o
  Terminals \o ColorSchemesAndMatchFields \o MatchAlgorithmsAndTests \o RedundancyTests \o
  SetsAndColors \o ColorsOfVersions \o ColorsOfKeywords \o TagsAndStrings \o RestrictionTags \o
  MaskTagsAndDepends \o DependFormats \o StabilityFormats \o VersionFormats \o
  VersionListFormats \o ColumnFormats \o VerboseFormats \o AppendixFormats \o CollectFormats \o
  InstalledFormats \o HeaderFormats \o NameLines \o DescriptionLines \o WholeFormats \o
  ExpandFormats \o TitleTexts \o CountTexts \o OtherTexts
=============================================================================

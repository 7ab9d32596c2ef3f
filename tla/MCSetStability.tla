---------------------------- MODULE MCSetStability -----------------------------
(* Two versions. The part of the configuration that concerns versions applies
   to none, one or both of them. *)
EXTENDS SetStability

MCConfigurations ==
  [local : BOOLEAN, filemask_is_profile : BOOLEAN, always_accept_keywords : BOOLEAN,
   user_profile : BOOLEAN,
   changes : [profile : {{}, {1}}, userprofile : {{}, {1}, {1, 2}}],
   accepts : {{}, {1}}, sets : {{}, {2}}, package_mask : {{}, {1}, {1, 2}},
   package_accept_keywords : {{}, {2}}]

================================================================================

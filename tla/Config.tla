------------------------------- MODULE Config -------------------------------
(***************************************************************************)
(* load_settings of src/fsa/config.py: what a configuration file leads to. *)
(* A file is [bytes, value]; value gives each key the class its value is   *)
(* in:                                                                     *)
(*   absent, fine;                                                         *)
(*   wrong     not of the type, blank, zero or negative, no User-Agent;    *)
(*   above     a number beyond ten;                                        *)
(*   infinite, nan    the TOML values of those names;                      *)
(*   huge      an integer no float can hold;                               *)
(*   no_home   a path below the home of a user who does not exist.         *)
(***************************************************************************)
EXTENDS Integers, FiniteSetsExt

ValidateUserAgent(class) == IF class = "fine" THEN "none" ELSE "ConfigError"

\* Path(raw).expanduser() is outside any handler
ExpandPath(class) ==
  CASE class = "wrong" -> "ConfigError"
    [] class = "no_home" -> "RuntimeError"
    [] OTHER -> "none"

\* int(inf) raises OverflowError, int(nan) ValueError, which is caught
CoercePositiveInt(class) ==
  CASE class \in {"wrong", "nan"} -> "ConfigError"
    [] class = "infinite" -> "OverflowError"
    [] OTHER -> "none"

\* nan is not <= 0 and passes
CoercePositiveNumber(class) ==
  CASE class = "wrong" -> "ConfigError"
    [] class = "huge" -> "OverflowError"
    [] OTHER -> "none"

\* ... nor is it > 10
\* mutant: the limit of SEC's is not checked
RateLimitUnchecked(class) == CoercePositiveNumber(class)
RateLimit(class) ==
  IF class \in {"above", "infinite"} THEN "ConfigError" ELSE CoercePositiveNumber(class)

Keys == {"sec_user_agent", "cache_dir", "output_dir", "historical_years", "projection_years",
         "rate_limit_rps", "cache_ttl_hours"}
Classes(key) ==
  CASE key = "sec_user_agent" -> {"fine", "absent", "wrong"}
    [] key \in {"cache_dir", "output_dir"} -> {"fine", "absent", "wrong", "no_home"}
    [] key \in {"historical_years", "projection_years"} ->
         {"fine", "absent", "wrong", "above", "infinite", "nan", "huge"}
    [] OTHER -> {"fine", "absent", "wrong", "above", "infinite", "nan", "huge"}

\* the exceptions of the checks, in the order they are made; the first is raised
Checks(file) ==
  <<CASE file.bytes = "latin_1" -> "UnicodeDecodeError"
      [] file.bytes \in {"none", "unreadable", "no_TOML"} -> "ConfigError"
      [] OTHER -> "none",
    ValidateUserAgent(file.value["sec_user_agent"]),
    ExpandPath(file.value["cache_dir"]), ExpandPath(file.value["output_dir"]),
    CoercePositiveInt(file.value["historical_years"]),
    CoercePositiveInt(file.value["projection_years"]),
    RateLimit(file.value["rate_limit_rps"]),
    CoercePositiveNumber(file.value["cache_ttl_hours"])>>

\* _find_config_file: the project's file is taken before the user's
FindConfigFile(project, user) == IF project.bytes # "none" THEN project ELSE user

\* what load_settings raises on the file found, "none" if it returns
LoadSettings(file) ==
  LET checks == Checks(file)
      raised == {n \in DOMAIN checks : checks[n] # "none"}
  IN  IF raised = {} THEN "none" ELSE checks[Min(raised)]
=============================================================================

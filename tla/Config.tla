------------------------------- MODULE Config -------------------------------
(***************************************************************************)
(* Loading the configuration (internal/conf): the environment first, then  *)
(* the .env file for what is missing, then defaults, then validation.      *)
(* A setting is Unset (the empty string), Malformed, or a value; a         *)
(* duration is a number of seconds, a list of addresses or hosts the       *)
(* sequence of its non-empty entries, a switch TRUE, FALSE or Unset.       *)
(***************************************************************************)
EXTENDS Integers, Sequences

CONSTANTS Unset, Malformed

MaxPortNumber == 65535

Strings == {"Port", "MetricsPort", "Issuer", "ClientID", "Admins", "SMTPHost", "SMTPPort", "SMTPFrom",
            "SMTPTimeout", "LeaseTimeout", "MaxAttempts", "BackoffInterval", "ReviewEmails",
            "ExcludedEmails", "AllowedDomains", "Origins", "CacheTTL", "CacheMaxBytes"}
Bools == {"Enabled", "TLS"}
Settings == Strings \cup Bools

\* A field with its zero value is taken from the file, a switch only when on:
\* a switch the environment turns off has the zero value too.
MergeConfigs(file, c) ==
  [f \in Settings |->
     IF f \in Bools THEN c[f] = TRUE \/ file[f] = TRUE
     ELSE IF c[f] = Unset THEN file[f] ELSE c[f]]

Default ==
  [Port |-> 8000, MetricsPort |-> 9090, SMTPTimeout |-> 30, LeaseTimeout |-> 60, MaxAttempts |-> 5,
   BackoffInterval |-> 300, CacheTTL |-> 300, CacheMaxBytes |-> 67108864]

MailDefaults == {"SMTPTimeout", "LeaseTimeout", "MaxAttempts", "BackoffInterval"}

FillDefaults(c) ==
  [f \in Settings |->
     IF f \in DOMAIN Default /\ (f \in MailDefaults => c.Enabled) /\ c[f] = Unset
     THEN Default[f] ELSE c[f]]

(***************************************************************************)
(* Validation.                                                             *)
(***************************************************************************)

\* strconv.Atoi and time.ParseDuration fail on the empty string.
Parses(x) == x # Unset /\ x # Malformed
InRange(x, low, high) == Parses(x) /\ x >= low /\ x <= high

ValidateMetricsPort(c) ==
  c.MetricsPort = Unset \/ (InRange(c.MetricsPort, 1024, MaxPortNumber) /\ c.MetricsPort # c.Port)

ValidateSMTP(c) ==
  /\ c.SMTPHost # Unset /\ c.SMTPPort # Unset /\ c.SMTPFrom # Unset
  /\ InRange(c.SMTPPort, 1, MaxPortNumber)
  /\ c.SMTPFrom # Malformed

\* A list is not empty as a string even when it has no entry.
ValidateReviewAudience(c) ==
  /\ c.ReviewEmails # Unset
  /\ c.ReviewEmails # Malformed /\ c.ExcludedEmails # Malformed
  /\ c.AllowedDomains # Malformed

ValidateNotifications(c) ==
  c.Enabled =>
    /\ ValidateSMTP(c)
    /\ ValidateReviewAudience(c)
    /\ Parses(c.SMTPTimeout) /\ Parses(c.LeaseTimeout)
    /\ c.LeaseTimeout > c.SMTPTimeout
    /\ Parses(c.MaxAttempts) /\ c.MaxAttempts >= 1
    /\ Parses(c.BackoffInterval)

RBACValidate(c) == c.Admins # Unset

OriginList(c) == IF c.Origins = Unset THEN << >> ELSE c.Origins
TTL(c) == Parses(c.CacheTTL) /\ c.CacheTTL > 0
MaxBytes(c) == Parses(c.CacheMaxBytes) /\ c.CacheMaxBytes > 0

StaticValidate(c) ==
  /\ c.Origins # Malformed
  /\ OriginList(c) # << >> => TTL(c) /\ MaxBytes(c)

Validate(c) ==
  /\ InRange(c.Port, 1024, 50000)
  /\ ValidateMetricsPort(c)
  /\ c.Issuer # Unset /\ c.ClientID # Unset
  /\ RBACValidate(c)
  /\ ValidateNotifications(c)
  /\ StaticValidate(c)

\* Faulty variant: the defaults are filled in after the validation.
LoadConfDefaultsLast(env, file) ==
  LET c == MergeConfigs(file, env)
  IN  [ok |-> Validate([c EXCEPT !.Port = FillDefaults(c).Port]), conf |-> FillDefaults(c)]

LoadConf(env, file) ==
  LET c == FillDefaults(MergeConfigs(file, env))
  IN  [ok |-> Validate(c), conf |-> c]

=============================================================================

----------------------------- MODULE ErrorTypes -----------------------------
(***************************************************************************)
(* The errors of the rule subsystem (Common/ErrorTypes.h) and the three    *)
(* questions its inline functions answer about an error: is it about the   *)
(* network, is it worth another attempt, must processing stop.             *)
(*                                                                         *)
(* An error here is its domain, its code and, for an HTTP error, the       *)
(* status it carries; descriptions and underlying errors are left out.     *)
(***************************************************************************)
EXTENDS Integers

\* The domains of the program, and the system's two that reach these functions.
ErrorDomain == {"RuleManager", "RuleFetcher", "RuleParser", "RuleCache", "Scheduler"}
SystemDomain == {"NSURL", "NSCocoa"}

RuleManagerError ==
    {"Unknown", "NotInitialized", "AlreadyRunning", "NotRunning", "NoSources",
     "AllSourcesFailed", "UpdateInProgress", "OfflineMode", "ConfigurationInvalid"}

RuleFetcherError ==
    {"Unknown", "NetworkUnavailable", "InvalidURL", "Timeout", "HTTPError",
     "AuthenticationFailed", "DataCorrupted", "FileMissing", "PermissionDenied",
     "S3Error", "Cancelled", "SSLError", "RedirectLimit"}

RuleParserError ==
    {"Unknown", "InvalidFormat", "EmptyData", "SyntaxError", "UnsupportedVersion",
     "MissingRequiredField", "InvalidDomain", "DataTooLarge", "EncodingError",
     "SchemaValidation", "FileMissing"}

RuleCacheError ==
    {"Unknown", "DiskFull", "CorruptedData", "Expired", "NotFound", "WriteFailed",
     "ReadFailed", "MigrationFailed", "QuotaExceeded", "LockFailed"}

SchedulerError ==
    {"Unknown", "InvalidInterval", "InvalidSchedule", "TimerFailed",
     "BackgroundTaskDenied", "MaxRetriesExceeded"}

\* Of NSURLErrorDomain only the codes that are told apart.
URLError == {"Cancelled", "UserCancelledAuthentication", "Other"}

\* An HTTP status, or none.
NoStatus == 0
Status == {NoStatus} \cup (100 .. 599)

ErrorCode ==
    [d \in ErrorDomain \cup SystemDomain |->
        CASE d = "RuleManager" -> RuleManagerError
          [] d = "RuleFetcher" -> RuleFetcherError
          [] d = "RuleParser"  -> RuleParserError
          [] d = "RuleCache"   -> RuleCacheError
          [] d = "Scheduler"   -> SchedulerError
          [] d = "NSURL"       -> URLError
          [] d = "NSCocoa"     -> {"Other"}]

Error == {e \in [domain: ErrorDomain \cup SystemDomain,
                 code: UNION {ErrorCode[d] : d \in ErrorDomain \cup SystemDomain},
                 status: Status] : e.code \in ErrorCode[e.domain]}

MakeError(domain, code) == [domain |-> domain, code |-> code, status |-> NoStatus]
HTTPStatusError(status) ==
    [domain |-> "RuleFetcher", code |-> "HTTPError", status |-> status]

IsNetworkError(e) ==
    \/ e.domain = "NSURL"
    \/ /\ e.domain = "RuleFetcher"
       /\ e.code \in {"NetworkUnavailable", "Timeout", "SSLError"}

IsRetryableError(e) ==
    \/ /\ e.domain = "NSURL"
       /\ e.code \notin {"Cancelled", "UserCancelledAuthentication"}
    \/ /\ e.domain = "RuleFetcher"
       /\ \/ e.code \in {"Timeout", "S3Error"}
          \/ e.code = "HTTPError" /\ e.status \in 500 .. 599
    \/ e.domain = "RuleCache" /\ e.code = "LockFailed"

IsFatalError(e) ==
    \/ /\ e.domain = "RuleManager"
       /\ e.code \in {"ConfigurationInvalid", "NotInitialized"}
    \/ /\ e.domain = "RuleParser"
       /\ e.code \in {"DataTooLarge", "UnsupportedVersion"}

\* Which of the suggestions is shown for an error.
RecoverySuggestion(e) ==
    CASE IsNetworkError(e) -> "check the network"
      [] e.domain = "RuleFetcher" /\ e.code = "AuthenticationFailed" -> "check the credentials"
      [] e.domain = "RuleFetcher" /\ e.code = "PermissionDenied" -> "get permission"
      [] e.domain = "RuleFetcher" /\ e.code = "FileMissing" -> "check the path"
      [] e.domain = "RuleCache" /\ e.code = "DiskFull" -> "free disk space"
      [] e.domain = "RuleCache" /\ e.code = "QuotaExceeded" -> "clear the cache"
      [] OTHER -> "none"

=============================================================================

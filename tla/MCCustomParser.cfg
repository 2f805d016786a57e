SPECIFICATION Spec
CONSTANTS
  NoUrl = NoUrl
  NoEndpoint = NoEndpoint
  NoLogin = NoLogin
  Procs = {p1, p2}
  Files = {f1, f2}
  Urls <- TwoUrls
  Logins = {maintainer, stranger}
  Maintainers = {maintainer}
  MaxCalls = 2
  MaxChanges = 1
INVARIANTS TypeOK FailClosed SameUrlSameOutcome AtMostOneFetch CratesAgree
PROPERTIES VerdictStable PolicySpec EveryCrateLinted

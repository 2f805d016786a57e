SPECIFICATION Spec
CONSTANTS
  NoUrl = NoUrl
  NoEndpoint = NoEndpoint
  NoLogin = NoLogin
  Procs = {p1, p2}
  Files = {f1}
  Urls <- TwoUrls
  Logins = {maintainer, stranger}
  Maintainers = {maintainer}
  MaxCalls = 1
  MaxChanges = 1
INVARIANTS QuotedTemplateNeverApproves

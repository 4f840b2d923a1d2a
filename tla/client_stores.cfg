\* Two accounts, two files, two requests of the page at once, three events.
SPECIFICATION Spec
CONSTANTS
  Accounts = {a1, a2}
  Files = {f1, f2}
  Timers = {t1, t2}
  Calls = {c1, c2}
  None = None
  MaxEvents = 3
  Uses = {
    {"uploadFile", "deleteFile", "elsewhere"},
    {"uploadFile", "handleChangeAccount", "failures"},
    {"uploadFile", "deleteFile", "deleteAccount"},
    {"deleteAccount", "failures"},
    {"updateLimits", "navigates", "reload"},
    {"url", "navigates", "failures"},
    {"deleteAccount", "elsewhere"}}
INVARIANTS StoresTypeOK PollingFollowsPage
PROPERTY ListConverges

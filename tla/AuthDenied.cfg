SPECIFICATION Spec
CONSTANTS
  Nobody = Nobody
  NoUrl = NoUrl
  Slots = {s1, s2}
  Urls = {hosts, users, vms}
  DeniedUrls = {users, vms}
  Modes = {"works", "ignored", "none"}
  RENEWALS = 2
  GIVE_UP_RENEWALS = 2
  PROBE_URLS = 4
  PRESENTATIONS = 3
  MaxCalls = 3
  MaxThrottles = 2
  MaxFaults = 1
PROPERTY SessionEndProven
CHECK_DEADLOCK FALSE

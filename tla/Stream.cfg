SPECIFICATION RealtimeSpec
CONSTANTS
  kick = kick  cron = cron
  notifications = notifications  dashboard = dashboard
  Event = {1, 2}
  Queue = {notifications, dashboard}
  Route <- MCRoute
  Flusher = {kick, cron}
  Cron = {cron}
  Limit = 1
  MaxFaults = 1
  LongKept = TRUE
  Dashboard = dashboard
  Tenant = {mine, other}
  MyTenant = mine
  Owners <- MCOwners
  PageLimit = 1
  MaxTrips = 1
INVARIANTS
  SyncIsComplete
  ProcessedIsPublished
  PublishedOnce
PROPERTIES
  EventuallyDelivered

SPECIFICATION Spec
CONSTANTS
  Paths <- MCPaths
  MaxMembers = 3
  Metas <- MCMetas
  Slash = 2
  Staging <- MCStaging
  Dockerfile <- MCDockerfile
  Dockerignore <- MCDockerignore
  Marker <- MCMarker
INVARIANTS UnpacksExactly AnnouncesAll ReceiverAccepts
CHECK_DEADLOCK FALSE

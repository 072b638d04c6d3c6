SPECIFICATION Spec
CONSTANTS
  d1 = d1
  d2 = d2
  v1 = v1
  v2 = v2
  Disks = {d1, d2}
  NoDisk = NoDisk
  Theirs = {v1}
  Others = {v2}
  Lost = {}
PROPERTIES UserVolumesKept
CHECK_DEADLOCK FALSE

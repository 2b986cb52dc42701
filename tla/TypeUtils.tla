----------------------------- MODULE TypeUtils -----------------------------
(***************************************************************************)
(* The equality of protocol messages (type_utils.cpp, type_utils.hpp),     *)
(* with which a scheduler or an executor compares what it was told before  *)
(* with what it is told now.  A message is a record whose optional fields  *)
(* are <<>> or <<value>>; the fields that are only compared for equality   *)
(* are one field, rest.                                                    *)
(***************************************************************************)
EXTENDS ResourceText

URIEq(l, r) ==
    l.value = r.value /\ l.executable = r.executable /\ l.extract = r.extract

VariableEq(l, r) == l.name = r.name /\ l.value = r.value

\* Seeded fault: the numbers of variables are not compared.
EnvironmentWithin(l, r) ==
    \A i \in DOMAIN l : \E j \in DOMAIN r : VariableEq(l[i], r[j])

EnvironmentEq(l, r) ==
    Len(l) = Len(r) /\ \A i \in DOMAIN l : \E j \in DOMAIN r : VariableEq(l[i], r[j])

\* the order of arguments matters, that of URIs does not
CommandInfoEq(l, r) ==
    /\ Len(l.uris) = Len(r.uris)
    /\ \A i \in DOMAIN l.uris : \E j \in DOMAIN r.uris : URIEq(l.uris[i], r.uris[j])
    /\ l.arguments = r.arguments
    /\ EnvironmentEq(l.environment, r.environment)
    /\ l.rest = r.rest

VolumeEq(l, r) == l = r

PortMappingEq(l, r) == l = r

ParameterEq(l, r) == l.key = r.key /\ l.value = r.value

DockerInfoEq(l, r) ==
    /\ Len(l.portMappings) = Len(r.portMappings)
    /\ \A i \in DOMAIN l.portMappings : \E j \in DOMAIN r.portMappings :
           PortMappingEq(l.portMappings[i], r.portMappings[j])
    /\ Len(l.parameters) = Len(r.parameters)
    /\ \A i \in DOMAIN l.parameters : \E j \in DOMAIN r.parameters :
           ParameterEq(l.parameters[i], r.parameters[j])
    /\ l.rest = r.rest

ContainerInfoEq(l, r) ==
    /\ Len(l.volumes) = Len(r.volumes)
    /\ \A i \in DOMAIN l.volumes : \E j \in DOMAIN r.volumes :
           VolumeEq(l.volumes[i], r.volumes[j])
    /\ l.rest = r.rest
    /\ DockerInfoEq(l.docker, r.docker)

PortEq(l, r) == l = r

PortsEq(l, r) ==
    Len(l) = Len(r) /\ \A i \in DOMAIN l : \E j \in DOMAIN r : PortEq(l[i], r[j])

DiscoveryInfoEq(l, r) ==
    l.rest = r.rest /\ PortsEq(l.ports, r.ports) /\ LabelsEq(l.labels, r.labels)

\* resources are compared as Resources, which drops the invalid ones
SameResources(l, r) == PoolEq(Make(l), Make(r))

ExecutorInfoEq(l, r) ==
    /\ l.type = r.type
    /\ SameResources(l.resources, r.resources)
    /\ CommandInfoEq(l.command, r.command)
    /\ ContainerInfoEq(l.container, r.container)
    /\ DiscoveryInfoEq(l.discovery, r.discovery)
    /\ l.rest = r.rest

SlaveInfoEq(l, r) ==
    /\ SameResources(l.resources, r.resources)
    /\ AttributesEq(l.attributes, r.attributes)
    /\ l.rest = r.rest

TaskStatusEq(l, r) == l = r

\* the order of statuses matters
TaskEq(l, r) ==
    /\ Len(l.statuses) = Len(r.statuses)
    /\ \A i \in DOMAIN l.statuses : TaskStatusEq(l.statuses[i], r.statuses[i])
    /\ SameResources(l.resources, r.resources)
    /\ LabelsEq(l.labels, r.labels)
    /\ DiscoveryInfoEq(l.discovery, r.discovery)
    /\ l.rest = r.rest

\* TaskInfos are compared by their serialization
TaskInfoEq(l, r) == l = r

TaskGroupInfoEq(l, r) ==
    Len(l) = Len(r) /\ \A i \in DOMAIN l : \E j \in DOMAIN r : TaskInfoEq(l[i], r[j])
=============================================================================
